---- MODULE Spec2Model ----
(***************************************************************************)
(* Model of the GosiUML PhenoMemory token store (obinexus/gosilabs):       *)
(* the library API of src/MVP/gosiuml/src/core/pheno_memory.c, the         *)
(* StateMachine of src/MVP/gosiuml/src/cli/cli_parser.c, the helper stubs  *)
(* of src/MVP/gosiuml/quick_fix.sh and the packed fields of                *)
(* src/MVP/gosiuml/include/phenomemory_platform.h.                         *)
(***************************************************************************)
EXTENDS Integers, Sequences, FiniteSets, TLC

VARIABLES token, ctx, hist, sm, thr, bits, pool, table, merge, bind, lib,
          list

vars == <<token, ctx, hist, sm, thr, bits, pool, table, merge, bind, lib, list>>

(***************************************************************************)
(* Bounds of the model.                                                    *)
(***************************************************************************)
\* gosiuml_process_token calls made on one context (caps its counters)
MaxProcessCalls == 2
\* largest reference count a client takes on the token
MaxRefs == 2
\* StateMachines that share one token
NumMachines == 2
\* step_state_machine calls made in all (caps the transition_count fields)
MaxSteps == 5
\* threads that call the library on the same token at the same time
NumThreads == 2
\* single-field writes made to one token record after it was filled in
MaxStores == 2

(***************************************************************************)
(* PhenoState, phenomemory_platform.h                                      *)
(***************************************************************************)
STATE_NIL == 0
STATE_ALLOCATED == 1
STATE_LOCKED == 2
STATE_ACTIVE == 3
STATE_DEGRADED == 4
STATE_SHARED == 5
STATE_FREED == 6

PhenoState == STATE_NIL..STATE_FREED

\* widest value of the 10-bit metrics.score field
SCORE_MAX == 1023

\* metrics.score values a payload writer stores
ScoreSamples == {0, 600, 601, SCORE_MAX}

(***************************************************************************)
(* PhenoToken.  live = FALSE stands for the NULL pointer (no record);      *)
(* hasValue = FALSE stands for token->value == NULL.                       *)
(***************************************************************************)
NullToken ==
  [live |-> FALSE, token_id |-> 0, allocated |-> 0, locked |-> 0, shared |-> 0,
   coherent |-> 0, ref_count |-> 0, hasValue |-> FALSE, score |-> 0,
   confidence |-> 0]

\* calloc(1, sizeof(PhenoToken)): a zero-filled record
CallocToken == [NullToken EXCEPT !.live = TRUE]

\* struct GosiUMLContext after calloc: stats all zero
CallocContext ==
  [state_count |-> [s \in PhenoState |-> 0], transition_count |-> 0]

\* The last call: operation, argument, returned code, the token before it,
\* and whether a transition to FREED had succeeded on this record by then
\* (preFreed: before the call, wasFreed: after it).
\* who/from: the StateMachine or thread that acted and its state before.
\* owner: the party whose store set the locked flag that is set now
\* (a StateMachine's number, LIBRARY for a library call, 0 while unlocked).
NoHist ==
  [op |-> "none", arg |-> 0, ret |-> 0, pre |-> NullToken,
   preFreed |-> FALSE, wasFreed |-> FALSE, who |-> 0, from |-> 0, owner |-> 0]

LIBRARY == -1

\* the owner of the locked flag after a step of the party actor
LockOwner(actor) ==
  IF token'.locked = 0 THEN 0
  ELSE IF token.locked = 0 THEN actor
  ELSE hist.owner

Record(op, arg, ret, freed) ==
  [op |-> op, arg |-> arg, ret |-> ret, pre |-> token,
   preFreed |-> hist.wasFreed, wasFreed |-> freed, who |-> 0, from |-> 0,
   owner |-> LockOwner(LIBRARY)]

(***************************************************************************)
(* gosiuml_get_state                                                       *)
(***************************************************************************)
\* variant: the payload test inverted (!token->value || score > 600)
gosiuml_get_state_inverted_payload_test(t) ==
  IF ~t.live THEN STATE_NIL
  ELSE IF t.allocated = 0 THEN STATE_NIL
  ELSE IF t.locked = 1 THEN STATE_LOCKED
  ELSE IF t.shared = 1 THEN STATE_SHARED
  ELSE IF ~t.hasValue \/ t.score > 600 THEN STATE_DEGRADED
  ELSE STATE_ACTIVE

\* variant: the shared flag is tested before the allocated flag
gosiuml_get_state_shared_before_allocated(t) ==
  IF ~t.live THEN STATE_NIL
  ELSE IF t.shared = 1 THEN STATE_SHARED
  ELSE IF t.allocated = 0 THEN STATE_NIL
  ELSE IF t.locked = 1 THEN STATE_LOCKED
  ELSE IF t.hasValue /\ t.score > 600 THEN STATE_DEGRADED
  ELSE STATE_ACTIVE

gosiuml_get_state(t) ==
  IF ~t.live THEN STATE_NIL
  ELSE IF t.allocated = 0 THEN STATE_NIL
  ELSE IF t.locked = 1 THEN STATE_LOCKED
  ELSE IF t.shared = 1 THEN STATE_SHARED
  ELSE IF t.hasValue /\ t.score > 600 THEN STATE_DEGRADED
  ELSE STATE_ACTIVE

(***************************************************************************)
(* gosiuml_transition: the returned code and the token afterwards          *)
(***************************************************************************)
\* variant: the LOCKED case sets the flag before it validates the edge
gosiuml_transition_lock_before_check(t, new_state) ==
  LET current == gosiuml_get_state(t) IN
  IF ~t.live THEN [ret |-> -1, token |-> t]
  ELSE IF new_state = STATE_ALLOCATED THEN
         IF current # STATE_NIL THEN [ret |-> -1, token |-> t]
         ELSE [ret |-> 0, token |-> [t EXCEPT !.allocated = 1]]
  ELSE IF new_state = STATE_LOCKED THEN
         IF current # STATE_ALLOCATED /\ current # STATE_ACTIVE
         THEN [ret |-> -1, token |-> [t EXCEPT !.locked = 1]]
         ELSE [ret |-> 0, token |-> [t EXCEPT !.locked = 1]]
  ELSE IF new_state = STATE_FREED THEN
         [ret |-> 0, token |-> [t EXCEPT !.allocated = 0, !.locked = 0]]
  ELSE [ret |-> -1, token |-> t]

\* variant: the FREED case forgets to clear the locked flag
gosiuml_transition_freed_keeps_lock(t, new_state) ==
  LET current == gosiuml_get_state(t) IN
  IF ~t.live THEN [ret |-> -1, token |-> t]
  ELSE IF new_state = STATE_ALLOCATED THEN
         IF current # STATE_NIL THEN [ret |-> -1, token |-> t]
         ELSE [ret |-> 0, token |-> [t EXCEPT !.allocated = 1]]
  ELSE IF new_state = STATE_LOCKED THEN
         IF current # STATE_ALLOCATED /\ current # STATE_ACTIVE
         THEN [ret |-> -1, token |-> t]
         ELSE [ret |-> 0, token |-> [t EXCEPT !.locked = 1]]
  ELSE IF new_state = STATE_FREED THEN
         [ret |-> 0, token |-> [t EXCEPT !.allocated = 0]]
  ELSE [ret |-> -1, token |-> t]

\* variant: a case for STATE_ACTIVE that releases a locked token
gosiuml_transition_active_unlocks(t, new_state) ==
  LET current == gosiuml_get_state(t) IN
  IF ~t.live THEN [ret |-> -1, token |-> t]
  ELSE IF new_state = STATE_ALLOCATED THEN
         IF current # STATE_NIL THEN [ret |-> -1, token |-> t]
         ELSE [ret |-> 0, token |-> [t EXCEPT !.allocated = 1]]
  ELSE IF new_state = STATE_LOCKED THEN
         IF current # STATE_ALLOCATED /\ current # STATE_ACTIVE
         THEN [ret |-> -1, token |-> t]
         ELSE [ret |-> 0, token |-> [t EXCEPT !.locked = 1]]
  ELSE IF new_state = STATE_ACTIVE THEN
         IF current # STATE_LOCKED THEN [ret |-> -1, token |-> t]
         ELSE [ret |-> 0, token |-> [t EXCEPT !.locked = 0]]
  ELSE IF new_state = STATE_FREED THEN
         [ret |-> 0, token |-> [t EXCEPT !.allocated = 0, !.locked = 0]]
  ELSE [ret |-> -1, token |-> t]

\* variant: the FREED case gives up the creator's reference
gosiuml_transition_freed_drops_reference(t, new_state) ==
  LET current == gosiuml_get_state(t) IN
  IF ~t.live THEN [ret |-> -1, token |-> t]
  ELSE IF new_state = STATE_ALLOCATED THEN
         IF current # STATE_NIL THEN [ret |-> -1, token |-> t]
         ELSE [ret |-> 0, token |-> [t EXCEPT !.allocated = 1]]
  ELSE IF new_state = STATE_LOCKED THEN
         IF current # STATE_ALLOCATED /\ current # STATE_ACTIVE
         THEN [ret |-> -1, token |-> t]
         ELSE [ret |-> 0, token |-> [t EXCEPT !.locked = 1]]
  ELSE IF new_state = STATE_FREED THEN
         [ret |-> 0, token |-> [t EXCEPT !.allocated = 0, !.locked = 0,
                                         !.ref_count = 0]]
  ELSE [ret |-> -1, token |-> t]

gosiuml_transition(t, new_state) ==
  LET current == gosiuml_get_state(t) IN
  IF ~t.live THEN [ret |-> -1, token |-> t]
  ELSE IF new_state = STATE_ALLOCATED THEN
         IF current # STATE_NIL THEN [ret |-> -1, token |-> t]
         ELSE [ret |-> 0, token |-> [t EXCEPT !.allocated = 1]]
  ELSE IF new_state = STATE_LOCKED THEN
         IF current # STATE_ALLOCATED /\ current # STATE_ACTIVE
         THEN [ret |-> -1, token |-> t]
         ELSE [ret |-> 0, token |-> [t EXCEPT !.locked = 1]]
  ELSE IF new_state = STATE_FREED THEN
         [ret |-> 0, token |-> [t EXCEPT !.allocated = 0, !.locked = 0]]
  ELSE [ret |-> -1, token |-> t]

(***************************************************************************)
(* IEEE-754 single precision, as far as the degradation score needs it.    *)
(* A float is [m, e] standing for m * 2^(-e), with 2^23 <= m < 2^24, or    *)
(* m = 0 for 0.0.                                                          *)
(***************************************************************************)
F32_ONE_ULP == 8388608  \* 2^23, the least normalised significand
F32_TOP == 16777216     \* 2^24

Pow2(n) == IF n <= 0 THEN 1 ELSE 2 ^ n

F32Zero == [m |-> 0, e |-> 0]

\* round-to-nearest-even of the significand q with remainder r out of d
F32Round(q, r, d, e) ==
  LET up == (2 * r > d) \/ (2 * r = d /\ q % 2 = 1)
      q1 == IF up THEN q + 1 ELSE q
  IN IF q1 = F32_TOP THEN [m |-> F32_ONE_ULP, e |-> e - 1]
     ELSE [m |-> q1, e |-> e]

\* binary long division of n by d carried on until 24 significant bits
RECURSIVE F32LongDiv(_, _, _, _)
F32LongDiv(q, r, d, e) ==
  IF q >= F32_ONE_ULP THEN F32Round(q, r, d, e)
  ELSE LET r2 == 2 * r IN
       IF r2 >= d THEN F32LongDiv(2 * q + 1, r2 - d, d, e + 1)
       ELSE F32LongDiv(2 * q, r2, d, e + 1)

\* (float)(n / (double)d) for 0 <= n < 2^23, d > 0
F32Div(n, d) ==
  IF n = 0 THEN F32Zero ELSE F32LongDiv(n \div d, n % d, d, 0)

\* f * 1023 in single precision: f.m * 1023 = f.m * 1024 - f.m
F32Mul1023(f) ==
  IF f.m = 0 THEN F32Zero
  ELSE LET lo == f.m % 1024
           q10 == f.m - (f.m \div 1024) - (IF lo = 0 THEN 0 ELSE 1)
           r10 == (1024 - lo) % 1024
       IN IF q10 >= F32_ONE_ULP THEN F32Round(q10, r10, 1024, f.e - 10)
          ELSE F32Round(2 * q10 + (r10 \div 512), r10 % 512, 512, f.e - 9)

\* (uint32_t)f for 0 <= f < 2^24
F32ToUint(f) ==
  IF f.m = 0 \/ f.e > 23 THEN 0 ELSE f.m \div Pow2(f.e)

\* f > 0.6, the double constant: no single lies between it and 6/10
F32GreaterThanPoint6(f) ==
  IF f.m = 0 \/ f.e > 24 THEN FALSE
  ELSE IF f.e < 24 THEN TRUE
  ELSE 10 * f.m > 6 * F32_TOP

(***************************************************************************)
(* verify_geometric_proof and calculate_degradation_score                  *)
(***************************************************************************)
verify_geometric_proof(t) ==
  IF ~t.live THEN FALSE ELSE t.hasValue /\ t.confidence > 100

calculate_degradation_score(t) ==
  IF ~t.live \/ ~t.hasValue THEN F32Zero ELSE F32Div(t.score, SCORE_MAX)

(***************************************************************************)
(* gosiuml_create_token: either calloc may fail                            *)
(***************************************************************************)
\* variant: the reference count is left at the 0 of calloc
gosiuml_create_token_no_reference(tokenOk, valueOk) ==
  IF ~tokenOk THEN NullToken
  ELSE [CallocToken EXCEPT !.allocated = 1, !.hasValue = valueOk]

gosiuml_create_token(tokenOk, valueOk) ==
  IF ~tokenOk THEN NullToken
  ELSE [CallocToken EXCEPT !.allocated = 1, !.ref_count = 1,
                           !.hasValue = valueOk]

(***************************************************************************)
(* Library API calls made one after another on one token                   *)
(***************************************************************************)
Call_gosiuml_create_token ==
  /\ ~token.live
  /\ \E tokenOk \in BOOLEAN, valueOk \in BOOLEAN :
       /\ token' = gosiuml_create_token(tokenOk, valueOk)
       /\ hist' = Record("create", 0, IF tokenOk THEN 0 ELSE -1, FALSE)
  /\ UNCHANGED <<ctx, sm, thr, bits, pool, table, merge, bind, lib, list>>

Call_gosiuml_transition ==
  \E new_state \in PhenoState :
    LET r == gosiuml_transition(token, new_state) IN
    /\ token' = r.token
    /\ hist' = Record("transition", new_state, r.ret,
                       hist.wasFreed \/ (new_state = STATE_FREED /\ r.ret = 0))
    /\ UNCHANGED <<ctx, sm, thr, bits, pool, table, merge, bind, lib, list>>

\* gosiuml_free_token: releases payload and record; the handle is dropped
Call_gosiuml_free_token ==
  /\ token.live
  /\ token' = NullToken
  /\ hist' = Record("free", 0, 0, FALSE)
  /\ UNCHANGED <<ctx, sm, thr, bits, pool, table, merge, bind, lib, list>>

\* variant: transition_count is counted on every call
gosiuml_process_token_counts_every_call(c, t) ==
  IF ~t.live THEN [ret |-> -1, ctx |-> c, token |-> t]
  ELSE
    LET current == gosiuml_get_state(t)
        c1 == [c EXCEPT !.state_count[current] = @ + 1,
                        !.transition_count = @ + 1]
    IN IF t.allocated = 1 /\ t.locked = 0
       THEN [ret |-> 0, ctx |-> c1, token |-> [t EXCEPT !.locked = 1]]
       ELSE [ret |-> 0, ctx |-> c1, token |-> t]

\* gosiuml_process_token(ctx, token)
gosiuml_process_token(c, t) ==
  IF ~t.live THEN [ret |-> -1, ctx |-> c, token |-> t]
  ELSE
    LET current == gosiuml_get_state(t)
        c1 == [c EXCEPT !.state_count[current] = @ + 1]
    IN IF t.allocated = 1 /\ t.locked = 0
       THEN [ret |-> 0,
             ctx |-> [c1 EXCEPT !.transition_count = @ + 1],
             token |-> [t EXCEPT !.locked = 1]]
       ELSE [ret |-> 0, ctx |-> c1, token |-> t]

ProcessCalls(c) ==
  c.state_count[0] + c.state_count[1] + c.state_count[2] + c.state_count[3]
  + c.state_count[4] + c.state_count[5] + c.state_count[6]

Call_gosiuml_process_token ==
  /\ ProcessCalls(ctx) < MaxProcessCalls
  /\ LET r == gosiuml_process_token(ctx, token) IN
       /\ token' = r.token
       /\ ctx' = r.ctx
       /\ hist' = Record("process", 0, r.ret, hist.wasFreed)
  /\ UNCHANGED <<sm, thr, bits, pool, table, merge, bind, lib, list>>

(***************************************************************************)
(* Callers holding the record write its public fields                      *)
(***************************************************************************)
ClientSetShared ==
  /\ token.live
  /\ \E b \in {0, 1} :
       /\ token' = [token EXCEPT !.shared = b]
       /\ hist' = Record("write", b, 0, hist.wasFreed)
  /\ UNCHANGED <<ctx, sm, thr, bits, pool, table, merge, bind, lib, list>>

ClientSetScore ==
  /\ token.live /\ token.hasValue
  /\ \E s \in ScoreSamples :
       /\ token' = [token EXCEPT !.score = s]
       /\ hist' = Record("write", s, 0, hist.wasFreed)
  /\ UNCHANGED <<ctx, sm, thr, bits, pool, table, merge, bind, lib, list>>

ClientSetRefCount ==
  /\ token.live
  /\ \E n \in 0..MaxRefs :
       /\ token' = [token EXCEPT !.ref_count = n]
       /\ hist' = Record("write", n, 0, hist.wasFreed)
  /\ UNCHANGED <<ctx, sm, thr, bits, pool, table, merge, bind, lib, list>>

Init ==
  /\ token = NullToken
  /\ ctx = CallocContext
  /\ hist = NoHist
  /\ sm = <<>>
  /\ thr = <<>>
  /\ bits = <<>>
  /\ pool = <<>>
  /\ table = <<>>
  /\ merge = <<>>
  /\ bind = <<>>
  /\ lib = <<>>
  /\ list = <<>>

Next ==
  \/ Call_gosiuml_create_token
  \/ Call_gosiuml_transition
  \/ Call_gosiuml_free_token
  \/ Call_gosiuml_process_token
  \/ ClientSetShared
  \/ ClientSetScore
  \/ ClientSetRefCount

Spec == Init /\ [][Next]_vars

(***************************************************************************)
(* pheno_token_alloc (quick_fix.sh) and the tokens a caller hands to a     *)
(* StateMachine: allocated by pheno_token_alloc or read by                 *)
(* parse_token_file (confidence 500), with a score stored by a writer.     *)
(***************************************************************************)
pheno_token_alloc(tokenOk, valueOk) ==
  IF ~tokenOk THEN NullToken
  ELSE [CallocToken EXCEPT !.allocated = 1, !.ref_count = 1,
                           !.hasValue = valueOk]

\* the scores on either side of score / 1023.0 > 0.6
ThresholdScores == {613, 614}

\* (a token that pheno_token_alloc has just made has score 0)
HandedTokens ==
  {pheno_token_alloc(TRUE, FALSE), pheno_token_alloc(TRUE, TRUE)} \cup
  {[pheno_token_alloc(TRUE, TRUE) EXCEPT !.confidence = 500, !.score = s] :
     s \in ScoreSamples \cup ThresholdScores}

(***************************************************************************)
(* StateMachine (cli_parser.c): the transition functions give the next     *)
(* state and the token afterwards.                                         *)
(***************************************************************************)
Machines == 1..NumMachines

\* create_state_machine: calloc, current_state = STATE_NIL; tokenSet tells
\* whether sm->token has been set
create_state_machine(tokenSet) ==
  [current_state |-> STATE_NIL, transition_count |-> 0, tokenSet |-> tokenSet]

transition_nil_to_allocated(m, t, tokenOk, valueOk) ==
  IF ~m.tokenSet
  THEN [next |-> STATE_ALLOCATED, token |-> pheno_token_alloc(tokenOk, valueOk),
        tokenSet |-> tokenOk]
  ELSE [next |-> STATE_ALLOCATED, token |-> t, tokenSet |-> TRUE]

\* variant: a plain store of the locked flag instead of the compare-and-set
transition_allocated_to_locked_plain_store(t, spurious) ==
  [next |-> STATE_LOCKED, token |-> [t EXCEPT !.locked = 1]]

\* atomic_compare_exchange_weak(&locked, 0, 1): one indivisible step that
\* may also fail spuriously
transition_allocated_to_locked(t, spurious) ==
  IF t.locked = 0 /\ ~spurious
  THEN [next |-> STATE_LOCKED, token |-> [t EXCEPT !.locked = 1]]
  ELSE [next |-> STATE_ALLOCATED, token |-> t]

\* variant: a failed proof drops the machine back to ALLOCATED
transition_locked_to_active_falls_back(t) ==
  IF verify_geometric_proof(t)
  THEN [next |-> STATE_ACTIVE, token |-> [t EXCEPT !.coherent = 1]]
  ELSE [next |-> STATE_ALLOCATED, token |-> t]

transition_locked_to_active(t) ==
  IF verify_geometric_proof(t)
  THEN [next |-> STATE_ACTIVE, token |-> [t EXCEPT !.coherent = 1]]
  ELSE [next |-> STATE_LOCKED, token |-> t]

\* variant: the score is written back without the factor 1023
transition_active_to_degraded_unscaled(t) ==
  LET degradation == calculate_degradation_score(t) IN
  IF F32GreaterThanPoint6(degradation)
  THEN [next |-> STATE_DEGRADED,
        token |-> [t EXCEPT !.score =
                     F32ToUint(degradation) % (SCORE_MAX + 1)]]
  ELSE [next |-> STATE_ACTIVE, token |-> t]

transition_active_to_degraded(t) ==
  LET degradation == calculate_degradation_score(t) IN
  IF F32GreaterThanPoint6(degradation)
  THEN [next |-> STATE_DEGRADED,
        token |-> [t EXCEPT !.score =
                     F32ToUint(F32Mul1023(degradation)) % (SCORE_MAX + 1)]]
  ELSE [next |-> STATE_ACTIVE, token |-> t]

\* sm->transitions[from][to] as set up by create_state_machine
Registered(from, to) ==
  \/ from = STATE_NIL /\ to = STATE_ALLOCATED
  \/ from = STATE_ALLOCATED /\ to = STATE_LOCKED
  \/ from = STATE_LOCKED /\ to = STATE_ACTIVE
  \/ from = STATE_ACTIVE /\ to = STATE_DEGRADED

\* the outcome of sm->transitions[current_state][target_state](sm)
RunTransition(m, t, target, spurious, tokenOk, valueOk) ==
  IF ~Registered(m.current_state, target)
  THEN [next |-> m.current_state, token |-> t, tokenSet |-> m.tokenSet]
  ELSE IF m.current_state = STATE_NIL
  THEN transition_nil_to_allocated(m, t, tokenOk, valueOk)
  ELSE LET r == IF m.current_state = STATE_ALLOCATED
                THEN transition_allocated_to_locked(t, spurious)
                ELSE IF m.current_state = STATE_LOCKED
                THEN transition_locked_to_active(t)
                ELSE transition_active_to_degraded(t)
       IN [next |-> r.next, token |-> r.token, tokenSet |-> m.tokenSet]

\* whether the weak compare-and-set fails spuriously: open only when the
\* step runs transition_allocated_to_locked
CasOutcomes(m, target) ==
  IF m.current_state = STATE_ALLOCATED /\ target = STATE_LOCKED
  THEN BOOLEAN ELSE {FALSE}

\* whether calloc succeeds: open only when the step runs pheno_token_alloc
AllocOutcomes(m, target) ==
  IF m.current_state = STATE_NIL /\ target = STATE_ALLOCATED /\ ~m.tokenSet
  THEN BOOLEAN ELSE {TRUE}

\* the step_state_machine calls made so far on the machines 1..n
RECURSIVE StepsMade(_)
StepsMade(n) ==
  IF n = 0 THEN 0 ELSE sm[n].transition_count + StepsMade(n - 1)

\* whether the step reads through a NULL sm->token: the compare-and-set of
\* transition_allocated_to_locked is the only access that does not test the
\* pointer.  The process ends there, so such a step has no successor.
NullDereference(m, t, target) ==
  m.current_state = STATE_ALLOCATED /\ target = STATE_LOCKED /\ ~t.live

\* step_state_machine(sm, event): no entry/exit action is registered
step_state_machine(i) ==
  /\ StepsMade(Len(sm)) < MaxSteps
  /\ \E target \in {x \in PhenoState : ~NullDereference(sm[i], token, x)} :
     \E spurious \in CasOutcomes(sm[i], target),
        tokenOk \in AllocOutcomes(sm[i], target),
        valueOk \in AllocOutcomes(sm[i], target) :
       LET r == RunTransition(sm[i], token, target, spurious, tokenOk, valueOk)
       IN /\ token' = r.token
          /\ sm' = [sm EXCEPT ![i] =
                      [current_state |-> r.next,
                       transition_count |-> sm[i].transition_count + 1,
                       tokenSet |-> r.tokenSet]]
          /\ hist' = [op |-> "step", arg |-> target, ret |-> r.next,
                      pre |-> token, preFreed |-> FALSE, wasFreed |-> FALSE,
                      who |-> i, from |-> sm[i].current_state,
                      owner |-> LockOwner(i)]
  /\ UNCHANGED <<ctx, thr, bits, pool, table, merge, bind, lib, list>>

InitSM ==
  /\ token \in HandedTokens
  /\ sm = [i \in Machines |-> create_state_machine(TRUE)]
  /\ ctx = CallocContext
  /\ hist = NoHist
  /\ thr = <<>>
  /\ bits = <<>>
  /\ pool = <<>>
  /\ table = <<>>
  /\ merge = <<>>
  /\ bind = <<>>
  /\ lib = <<>>
  /\ list = <<>>

NextSM == \E i \in Machines : step_state_machine(i)

SpecSM == InitSM /\ [][NextSM]_vars

(***************************************************************************)
(* A StateMachine that owns its token: sm->token is NULL after             *)
(* create_state_machine and the NIL -> ALLOCATED step allocates it.  The   *)
(* owner fills in the payload metrics through sm->token.                   *)
(***************************************************************************)
\* metrics.confidence values on either side of confidence > 100, and the
\* 500 that parse_token_file stores
ConfidenceSamples == {100, 101, 500}

ClientSetConfidence ==
  /\ token.live /\ token.hasValue
  /\ \E c \in ConfidenceSamples :
       /\ token' = [token EXCEPT !.confidence = c]
       /\ hist' = Record("write", c, 0, hist.wasFreed)
  /\ UNCHANGED <<ctx, sm, thr, bits, pool, table, merge, bind, lib, list>>

InitOwn ==
  /\ token = NullToken
  /\ sm = <<create_state_machine(FALSE)>>
  /\ ctx = CallocContext
  /\ hist = NoHist
  /\ thr = <<>>
  /\ bits = <<>>
  /\ pool = <<>>
  /\ table = <<>>
  /\ merge = <<>>
  /\ bind = <<>>
  /\ lib = <<>>
  /\ list = <<>>

NextOwn ==
  \/ step_state_machine(1)
  \/ ClientSetConfidence
  \/ ClientSetScore

SpecOwn == InitOwn /\ [][NextOwn]_vars

(***************************************************************************)
(* StateMachines and library calls on the same token: the token a caller   *)
(* hands to its StateMachines stays reachable through the library API.     *)
(***************************************************************************)
\* gosiuml_get_state(token) called by a client: nothing is written
Call_gosiuml_get_state ==
  /\ token' = token
  /\ hist' = Record("get_state", 0, gosiuml_get_state(token), hist.wasFreed)
  /\ UNCHANGED <<ctx, sm, thr, bits, pool, table, merge, bind, lib, list>>

\* gosiuml_process_token(ctx, token) called by a client on a context of its
\* own, fresh from gosiuml_create_context
Call_gosiuml_process_token_own_context ==
  /\ LET r == gosiuml_process_token(CallocContext, token) IN
       /\ token' = r.token
       /\ hist' = Record("process", 0, r.ret, hist.wasFreed)
  /\ UNCHANGED <<ctx, sm, thr, bits, pool, table, merge, bind, lib, list>>

\* the shared token carries a payload with a score next to the threshold
InitShared ==
  /\ InitSM
  /\ token.score \in ThresholdScores

NextShared ==
  \/ \E i \in Machines : step_state_machine(i)
  \/ Call_gosiuml_transition
  \/ Call_gosiuml_process_token_own_context
  \/ Call_gosiuml_get_state

SpecShared == InitShared /\ [][NextShared]_vars

(***************************************************************************)
(* Threads calling gosiuml_transition(token, STATE_LOCKED) and             *)
(* gosiuml_process_token(ctx, token) on one token and one context at the   *)
(* same time.  Neither function takes the library mutex or uses an atomic, *)
(* so every read and every write of the shared record is a step of its     *)
(* own.  current and tmp are the thread's locals.                          *)
(***************************************************************************)
Threads == 1..NumThreads

IdleThread ==
  [pc |-> "idle", op |-> "none", current |-> STATE_NIL, tmp |-> 0,
   ret |-> 0, acquired |-> FALSE]

\* a thread enters one of the two functions
ThreadCall(i) ==
  /\ thr[i].pc = "idle"
  /\ \E op \in {"transition", "process"} :
       thr' = [thr EXCEPT ![i].op = op,
                          ![i].pc = IF op = "transition" THEN "t_read"
                                    ELSE "p_read"]
  /\ UNCHANGED <<token, ctx, hist, sm, bits, pool, table, merge, bind, lib, list>>

\* gosiuml_transition: int current = gosiuml_get_state(token);
TransitionRead(i) ==
  /\ thr[i].pc = "t_read"
  /\ thr' = [thr EXCEPT ![i].current = gosiuml_get_state(token),
                        ![i].pc = "t_write"]
  /\ UNCHANGED <<token, ctx, hist, sm, bits, pool, table, merge, bind, lib, list>>

\* gosiuml_transition, case STATE_LOCKED: the guard on current, then the store
TransitionWrite(i) ==
  /\ thr[i].pc = "t_write"
  /\ IF thr[i].current # STATE_ALLOCATED /\ thr[i].current # STATE_ACTIVE
     THEN /\ thr' = [thr EXCEPT ![i].ret = -1, ![i].pc = "done"]
          /\ UNCHANGED token
     ELSE /\ token' = [token EXCEPT !.locked = 1]
          /\ thr' = [thr EXCEPT ![i].ret = 0, ![i].acquired = TRUE,
                                ![i].pc = "done"]
  /\ UNCHANGED <<ctx, hist, sm, bits, pool, table, merge, bind, lib, list>>

\* gosiuml_process_token: current = gosiuml_get_state(token);
\* ctx->stats.state_count[current]++;
ProcessRead(i) ==
  /\ thr[i].pc = "p_read"
  /\ LET current == gosiuml_get_state(token) IN
       /\ ctx' = [ctx EXCEPT !.state_count[current] = @ + 1]
       /\ thr' = [thr EXCEPT ![i].current = current, ![i].pc = "p_check"]
  /\ UNCHANGED <<token, hist, sm, bits, pool, table, merge, bind, lib, list>>

\* if (token->mem_flags.allocated && !token->mem_flags.locked)
ProcessCheck(i) ==
  /\ thr[i].pc = "p_check"
  /\ IF token.allocated = 1 /\ token.locked = 0
     THEN thr' = [thr EXCEPT ![i].pc = "p_lock"]
     ELSE thr' = [thr EXCEPT ![i].ret = 0, ![i].pc = "done"]
  /\ UNCHANGED <<token, ctx, hist, sm, bits, pool, table, merge, bind, lib, list>>

\* token->mem_flags.locked = 1;
ProcessLock(i) ==
  /\ thr[i].pc = "p_lock"
  /\ token' = [token EXCEPT !.locked = 1]
  /\ thr' = [thr EXCEPT ![i].acquired = TRUE, ![i].pc = "p_load"]
  /\ UNCHANGED <<ctx, hist, sm, bits, pool, table, merge, bind, lib, list>>

\* ctx->stats.transition_count++ : the load
ProcessLoad(i) ==
  /\ thr[i].pc = "p_load"
  /\ thr' = [thr EXCEPT ![i].tmp = ctx.transition_count, ![i].pc = "p_store"]
  /\ UNCHANGED <<token, ctx, hist, sm, bits, pool, table, merge, bind, lib, list>>

\* ctx->stats.transition_count++ : the store, then return 0
ProcessStore(i) ==
  /\ thr[i].pc = "p_store"
  /\ ctx' = [ctx EXCEPT !.transition_count = thr[i].tmp + 1]
  /\ thr' = [thr EXCEPT ![i].ret = 0, ![i].pc = "done"]
  /\ UNCHANGED <<token, hist, sm, bits, pool, table, merge, bind, lib, list>>

\* the token is fresh from gosiuml_create_token: allocated and unlocked
InitConc ==
  /\ \E valueOk \in BOOLEAN : token = gosiuml_create_token(TRUE, valueOk)
  /\ ctx = CallocContext
  /\ thr = [i \in Threads |-> IdleThread]
  /\ hist = NoHist
  /\ sm = <<>>
  /\ bits = <<>>
  /\ pool = <<>>
  /\ table = <<>>
  /\ merge = <<>>
  /\ bind = <<>>
  /\ lib = <<>>
  /\ list = <<>>

NextConc ==
  \E i \in Threads :
    \/ ThreadCall(i)
    \/ TransitionRead(i)
    \/ TransitionWrite(i)
    \/ ProcessRead(i)
    \/ ProcessCheck(i)
    \/ ProcessLock(i)
    \/ ProcessLoad(i)
    \/ ProcessStore(i)

SpecConc == InitConc /\ [][NextConc]_vars

(***************************************************************************)
(* Packed fields.  A bit-field struct is one 32-bit storage unit; its      *)
(* fields lie in declaration order from bit 0 (the layout gcc and clang    *)
(* use on little-endian targets).  A layout is the sequence of the         *)
(* declared fields with their widths.                                      *)
(***************************************************************************)
\* PhenoToken.mem_flags
MemFlagsLayout ==
  << [name |-> "allocated", width |-> 1], [name |-> "locked", width |-> 1],
     [name |-> "dirty", width |-> 1], [name |-> "pinned", width |-> 1],
     [name |-> "shared", width |-> 1], [name |-> "coherent", width |-> 1],
     [name |-> "nil_state", width |-> 1], [name |-> "null_state", width |-> 1],
     [name |-> "ref_count", width |-> 8], [name |-> "mem_zone", width |-> 4],
     [name |-> "access_level", width |-> 4], [name |-> "reserved", width |-> 8] >>

\* PhenoTokenType
TypeLayout ==
  << [name |-> "category", width |-> 4], [name |-> "node_level", width |-> 3],
     [name |-> "cluster_id", width |-> 8], [name |-> "frame_ref", width |-> 8],
     [name |-> "degradation", width |-> 4], [name |-> "reserved", width |-> 5] >>

Layouts == [mem_flags |-> MemFlagsLayout, type |-> TypeLayout]

\* PhenoRelation: sixteen 8-bit sub-fields in four groups
RelationFields ==
  {"subject_id", "subject_type", "subject_state", "subject_class",
   "class_id", "class_category", "class_taxonomy", "class_level",
   "instance_id", "instance_type", "instance_state", "instance_flags",
   "person_id", "person_role", "person_auth", "person_state"}

\* width of a PhenoRelation sub-field and of uint8_t
BYTE_BITS == 8

ZeroRelation == [f \in RelationFields |-> 0]

\* index of the field called name in a layout
FieldIndex(layout, name) ==
  CHOOSE k \in 1..Len(layout) : layout[k].name = name

\* first bit of the k-th field: the widths of the fields declared before it
RECURSIVE FieldOffset(_, _)
FieldOffset(layout, k) ==
  IF k = 1 THEN 0 ELSE FieldOffset(layout, k - 1) + layout[k - 1].width

\* reading a bit-field
BitfieldLoad(word, layout, name) ==
  LET k == FieldIndex(layout, name)
  IN (word \div Pow2(FieldOffset(layout, k))) % Pow2(layout[k].width)

\* variant: the stored value is not reduced to the field's width
BitfieldStore_unmasked(word, layout, name, v) ==
  LET k == FieldIndex(layout, name)
      off == FieldOffset(layout, k)
      old == (word \div Pow2(off)) % Pow2(layout[k].width)
  IN (word - (old * Pow2(off))) + (v * Pow2(off))

\* assigning v to a bit-field of unsigned type: v is reduced modulo 2^width
BitfieldStore(word, layout, name, v) ==
  LET k == FieldIndex(layout, name)
      off == FieldOffset(layout, k)
      old == (word \div Pow2(off)) % Pow2(layout[k].width)
  IN (word - (old * Pow2(off))) + ((v % Pow2(layout[k].width)) * Pow2(off))

\* assigning v to a uint8_t sub-field of PhenoRelation
RelationStore(rel, name, v) == [rel EXCEPT ![name] = v % Pow2(BYTE_BITS)]

\* a 32-bit unsigned value is kept as <<high 16 bits, low 16 bits>>
\* (v >> n) & 0xFF for n = 0, 8, 16, 24
Byte(v, n) ==
  IF n = 0 THEN v[2] % 256
  ELSE IF n = 8 THEN (v[2] \div 256) % 256
  ELSE IF n = 16 THEN v[1] % 256
  ELSE (v[1] \div 256) % 256

\* ROTATE_LEFT(n, b) and ROTATE_RIGHT(n, b) on a uint8_t promoted to int
\* (the two operands of | have no bit in common for n < 256: the left shift
\* has zeros below bit b and the right shift lies below bit b)
ROTATE_LEFT(n, b) == (n * Pow2(b)) + (n \div Pow2(8 - b))

ROTATE_RIGHT(n, b) == (n \div Pow2(b)) + (n * Pow2(8 - b))

\* a ^ b on non-negative integers
RECURSIVE BitXor(_, _)
BitXor(a, b) ==
  IF a = 0 THEN b
  ELSE IF b = 0 THEN a
  ELSE (((a % 2) + (b % 2)) % 2) + 2 * BitXor(a \div 2, b \div 2)

\* the number of 1 bits: while (val) { level += val & 1; val >>= 1; }
RECURSIVE PopCount(_)
PopCount(n) == IF n = 0 THEN 0 ELSE (n % 2) + PopCount(n \div 2)

\* set one field of a bit-field unit that starts from word
SetField(word, struct, name, v) == BitfieldStore(word, Layouts[struct], name, v)

\* parse_token_file of core/token_parser.c for one line "ID TYPE NAME":
\* the record is calloc'ed, then filled from id and type
parse_token_file(id, type) ==
  [mem_flags |-> SetField(SetField(0, "mem_flags", "allocated", 1),
                          "mem_flags", "ref_count", 1),
   type |-> SetField(SetField(SetField(0, "type", "category", type[2] % 16),
                              "type", "node_level", (type[2] \div 16) % 8),
                     "type", "cluster_id", (type[2] \div 128) % 256),
   relation |->
     [ZeroRelation EXCEPT !.subject_id = Byte(id, 0),
                          !.subject_type = Byte(type, 0),
                          !.subject_state = 1,
                          !.class_id = Byte(id, 8),
                          !.class_category = Byte(type, 8),
                          !.instance_id = Byte(id, 16)],
   token_type |-> Byte(type, 0),
   token_value |-> <<0, 0>>, stores |-> 0]

\* parse_token_file of gosiuml_deprecated for the idx-th line
\* "TYPE VALUE NAME": the relation is derived from token_type and token_value
parse_token_file_deprecated(idx, token_type, token_value) ==
  LET r1 == RelationStore(ZeroRelation, "subject_id", token_type % 256)
      r2 == RelationStore(r1, "subject_type", Byte(token_value, 0))
      r3 == RelationStore(r2, "subject_state", Byte(token_value, 8))
      r4 == RelationStore(r3, "subject_class", Byte(token_value, 16))
      r5 == RelationStore(r4, "class_id", ROTATE_LEFT(token_type, 3))
      r6 == RelationStore(r5, "class_category", ROTATE_RIGHT(token_type, 2))
      r7 == RelationStore(r6, "class_taxonomy", BitXor(token_type, 170))
      r8 == RelationStore(r7, "class_level",
                          PopCount(token_value[1]) + PopCount(token_value[2]))
      r9 == RelationStore(r8, "instance_id", idx % 256)
      r10 == RelationStore(r9, "instance_type", token_type)
      r11 == RelationStore(r10, "instance_state", 9)
      r12 == RelationStore(r11, "instance_flags", 255)
      r13 == RelationStore(r12, "person_id", Byte(token_value, 24))
      r14 == RelationStore(r13, "person_role", 1)
      r15 == RelationStore(r14, "person_auth", 15)
  IN [mem_flags |-> 0, type |-> 0,
      relation |-> RelationStore(r15, "person_state", 7),
      token_type |-> token_type, token_value |-> token_value, stores |-> 0]

\* the 32-bit value put together again from the four bytes taken out of it
Reassemble(rel) ==
  << rel.subject_class + (256 * rel.person_id),
     rel.subject_type + (256 * rel.subject_state) >>

\* inputs: 0x12345678 and 0x87654321, the values of the usage text
Word32Samples == { <<4660, 22136>>, <<34661, 17185>> }

\* token_type bytes read by %hhu
ByteSamples == {1, 171}

\* values stored into a field of the given width: inside and beyond its range
StoreSamples(width) == {1, Pow2(width) - 1, Pow2(width) + 1}

\* the fields that are written one at a time
StoredFields ==
  { <<"mem_flags", "allocated">>, <<"mem_flags", "ref_count">>,
    <<"mem_flags", "mem_zone">>, <<"type", "category">>,
    <<"type", "node_level">>, <<"type", "cluster_id">> }

StoredRelationFields == {"subject_id", "person_id"}

\* PhenoToken token = {0}; stores counts the single-field writes made since
ZeroBits ==
  [mem_flags |-> 0, type |-> 0, relation |-> ZeroRelation,
   token_type |-> 0, token_value |-> <<0, 0>>, stores |-> 0]

\* token.<struct>.<field> = v, as in gosiuml_test_bitfields
StoreBitfield ==
  \E sf \in StoredFields :
    LET k == FieldIndex(Layouts[sf[1]], sf[2]) IN
    \E v \in StoreSamples(Layouts[sf[1]][k].width) :
      /\ bits.stores < MaxStores
      /\ bits' = [bits EXCEPT ![sf[1]] = SetField(@, sf[1], sf[2], v),
                              !.stores = @ + 1]
      /\ hist' = [op |-> "store", struct |-> sf[1], field |-> sf[2],
                  arg |-> v, pre |-> bits]
      /\ UNCHANGED <<token, ctx, sm, thr, pool, table, merge, bind, lib, list>>

\* token.relation.<field> = v
StoreRelationField ==
  \E f \in StoredRelationFields, v \in StoreSamples(BYTE_BITS) :
    /\ bits.stores < MaxStores
    /\ bits' = [bits EXCEPT !.relation = RelationStore(@, f, v),
                            !.stores = @ + 1]
    /\ hist' = [op |-> "store", struct |-> "relation", field |-> f,
                arg |-> v, pre |-> bits]
    /\ UNCHANGED <<token, ctx, sm, thr, pool, table, merge, bind, lib, list>>

\* the parsers fill in a record that calloc has just zeroed
Call_parse_token_file ==
  \E id \in Word32Samples, type \in Word32Samples :
    /\ hist.op = "none"
    /\ bits' = parse_token_file(id, type)
    /\ hist' = [op |-> "parse", struct |-> "token", field |-> "all",
                arg |-> type, pre |-> bits]
    /\ UNCHANGED <<token, ctx, sm, thr, pool, table, merge, bind, lib, list>>

Call_parse_token_file_deprecated ==
  \E token_type \in ByteSamples, token_value \in Word32Samples :
    /\ hist.op = "none"
    /\ bits' = parse_token_file_deprecated(0, token_type, token_value)
    /\ hist' = [op |-> "parse_deprecated", struct |-> "token",
                field |-> "all", arg |-> token_value, pre |-> bits]
    /\ UNCHANGED <<token, ctx, sm, thr, pool, table, merge, bind, lib, list>>

InitCodec ==
  /\ bits = ZeroBits
  /\ hist = [op |-> "none", struct |-> "token", field |-> "all", arg |-> 0,
             pre |-> ZeroBits]
  /\ token = NullToken
  /\ ctx = CallocContext
  /\ sm = <<>>
  /\ thr = <<>>
  /\ pool = <<>>
  /\ table = <<>>
  /\ merge = <<>>
  /\ bind = <<>>
  /\ lib = <<>>
  /\ list = <<>>

NextCodec ==
  \/ StoreBitfield
  \/ StoreRelationField
  \/ Call_parse_token_file
  \/ Call_parse_token_file_deprecated

SpecCodec == InitCodec /\ [][NextCodec]_vars

(***************************************************************************)
(* Several tokens held by one client: pool[h] is the record behind the     *)
(* h-th handle, NullToken while the handle holds no record.                *)
(***************************************************************************)
\* handles a client holds at the same time
MaxTokens == 2

Handles == 1..MaxTokens

PoolHist(op, h, arg, ret) ==
  [op |-> op, handle |-> h, arg |-> arg, ret |-> ret, pre |-> pool]

Pool_gosiuml_create_token(h) ==
  /\ ~pool[h].live
  /\ \E tokenOk \in BOOLEAN, valueOk \in BOOLEAN :
       /\ pool' = [pool EXCEPT ![h] = gosiuml_create_token(tokenOk, valueOk)]
       /\ hist' = PoolHist("create", h, 0, IF tokenOk THEN 0 ELSE -1)
  /\ UNCHANGED <<token, ctx, sm, thr, bits, table, merge, bind, lib, list>>

Pool_pheno_token_alloc(h) ==
  /\ ~pool[h].live
  /\ \E tokenOk \in BOOLEAN, valueOk \in BOOLEAN :
       /\ pool' = [pool EXCEPT ![h] = pheno_token_alloc(tokenOk, valueOk)]
       /\ hist' = PoolHist("alloc", h, 0, IF tokenOk THEN 0 ELSE -1)
  /\ UNCHANGED <<token, ctx, sm, thr, bits, table, merge, bind, lib, list>>

Pool_gosiuml_transition(h) ==
  \E new_state \in PhenoState :
    LET r == gosiuml_transition(pool[h], new_state) IN
    /\ pool' = [pool EXCEPT ![h] = r.token]
    /\ hist' = PoolHist("transition", h, new_state, r.ret)
    /\ UNCHANGED <<token, ctx, sm, thr, bits, table, merge, bind, lib, list>>

\* gosiuml_free_token / pheno_token_free: payload and record are released
Pool_gosiuml_free_token(h) ==
  /\ pool[h].live
  /\ pool' = [pool EXCEPT ![h] = NullToken]
  /\ hist' = PoolHist("free", h, 0, 0)
  /\ UNCHANGED <<token, ctx, sm, thr, bits, table, merge, bind, lib, list>>

InitPool ==
  /\ pool = [h \in Handles |-> NullToken]
  /\ hist = [op |-> "none", handle |-> 0, arg |-> 0, ret |-> 0,
             pre |-> [h \in Handles |-> NullToken]]
  /\ token = NullToken
  /\ ctx = CallocContext
  /\ sm = <<>>
  /\ thr = <<>>
  /\ bits = <<>>
  /\ table = <<>>
  /\ merge = <<>>
  /\ bind = <<>>
  /\ lib = <<>>
  /\ list = <<>>

NextPool ==
  \E h \in Handles :
    \/ Pool_gosiuml_create_token(h)
    \/ Pool_pheno_token_alloc(h)
    \/ Pool_gosiuml_transition(h)
    \/ Pool_gosiuml_free_token(h)

SpecPool == InitPool /\ [][NextPool]_vars

(***************************************************************************)
(* Hybrid Index: PhenoLookupTable of the lexer design (part_010).  nodes   *)
(* is the heap of PhenoMemoryNode records, a function from the address of  *)
(* each node that exists to its fields; NULL is the null pointer.  A key   *)
(* (the prefix string) is a number: strcmp order is numeric order.         *)
(* children[0] is the left subtree, children[1] the right one, and         *)
(* balance_factor is height(left) - height(right), as the rotation chosen  *)
(* for balance_factor > 1 shows.                                           *)
(***************************************************************************)
NULL == 0

\* PhenoMemoryNode* hash_buckets[1024]
HASH_BUCKETS == 1024

\* keys in use: 3 and 1027 fall into the same bucket
KeySamples == {1, 3, 4, 5, 8, 1027}

hash_function(key) == key

Bucket(key) == hash_function(key) % HASH_BUCKETS

BucketSamples == {Bucket(k) : k \in KeySamples}

\* a node just allocated for key
NewNode(key) ==
  [prefix |-> key, left |-> NULL, right |-> NULL, height |-> 1,
   balance_factor |-> 0, hash_next |-> NULL]

\* PhenoLookupTable after calloc
EmptyTable ==
  [avl_root |-> NULL, hash_buckets |-> [b \in BucketSamples |-> NULL],
   nodes |-> <<>>, total_nodes |-> 0]

Height(nodes, h) == IF h = NULL THEN 0 ELSE nodes[h].height

\* recompute height and balance_factor of h from its children
UpdateNode(nodes, h) ==
  LET hl == Height(nodes, nodes[h].left)
      hr == Height(nodes, nodes[h].right)
  IN [nodes EXCEPT ![h].height = 1 + (IF hl > hr THEN hl ELSE hr),
                   ![h].balance_factor = hl - hr]

\* rotate_right(&root): the left child becomes the root of the subtree
rotate_right(nodes, h) ==
  LET x == nodes[h].left
      n1 == [nodes EXCEPT ![h].left = nodes[x].right, ![x].right = h]
  IN [nodes |-> UpdateNode(UpdateNode(n1, h), x), root |-> x]

\* rotate_left(&root): the right child becomes the root of the subtree
rotate_left(nodes, h) ==
  LET x == nodes[h].right
      n1 == [nodes EXCEPT ![h].right = nodes[x].left, ![x].left = h]
  IN [nodes |-> UpdateNode(UpdateNode(n1, h), x), root |-> x]

\* variant: the rotated left child is not linked back into the root
avl_rotate_for_balance_unlinked_child(nodes, h) ==
  IF nodes[h].balance_factor > 1
  THEN LET l == nodes[h].left
           r1 == IF nodes[l].balance_factor < 0 THEN rotate_left(nodes, l)
                 ELSE [nodes |-> nodes, root |-> l]
       IN rotate_right(r1.nodes, h)
  ELSE [nodes |-> nodes, root |-> h]

\* avl_rotate_for_balance(&root): only the left-heavy case is written
avl_rotate_for_balance(nodes, h) ==
  IF nodes[h].balance_factor > 1
  THEN LET l == nodes[h].left
           r1 == IF nodes[l].balance_factor < 0 THEN rotate_left(nodes, l)
                 ELSE [nodes |-> nodes, root |-> l]
       IN rotate_right([r1.nodes EXCEPT ![h].left = r1.root], h)
  ELSE [nodes |-> nodes, root |-> h]

\* tree insertion of the node n below h, rebalancing on the way back up
RECURSIVE avl_insert(_, _, _)
avl_insert(nodes, h, n) ==
  IF h = NULL THEN [nodes |-> nodes, root |-> n]
  ELSE IF nodes[n].prefix < nodes[h].prefix
  THEN LET r == avl_insert(nodes, nodes[h].left, n)
       IN avl_rotate_for_balance(
            UpdateNode([r.nodes EXCEPT ![h].left = r.root], h), h)
  ELSE LET r == avl_insert(nodes, nodes[h].right, n)
       IN avl_rotate_for_balance(
            UpdateNode([r.nodes EXCEPT ![h].right = r.root], h), h)

\* the leftmost node below h
RECURSIVE LeftMost(_, _)
LeftMost(nodes, h) ==
  IF nodes[h].left = NULL THEN h ELSE LeftMost(nodes, nodes[h].left)

\* tree removal of key below h: the node is unlinked, its successor takes the
\* place of a node with two children, rebalancing on the way back up
RECURSIVE avl_remove(_, _, _)
avl_remove(nodes, h, key) ==
  IF h = NULL THEN [nodes |-> nodes, root |-> NULL]
  ELSE IF key < nodes[h].prefix
  THEN LET r == avl_remove(nodes, nodes[h].left, key)
       IN avl_rotate_for_balance(
            UpdateNode([r.nodes EXCEPT ![h].left = r.root], h), h)
  ELSE IF key > nodes[h].prefix
  THEN LET r == avl_remove(nodes, nodes[h].right, key)
       IN avl_rotate_for_balance(
            UpdateNode([r.nodes EXCEPT ![h].right = r.root], h), h)
  ELSE IF nodes[h].left = NULL THEN [nodes |-> nodes, root |-> nodes[h].right]
  ELSE IF nodes[h].right = NULL THEN [nodes |-> nodes, root |-> nodes[h].left]
  ELSE LET s == LeftMost(nodes, nodes[h].right)
           r == avl_remove(nodes, nodes[h].right, nodes[s].prefix)
       IN avl_rotate_for_balance(
            UpdateNode([r.nodes EXCEPT ![s].left = nodes[h].left,
                                       ![s].right = r.root], s), s)

\* avl_trie_search(root, key): the node that holds key, or NULL
RECURSIVE avl_trie_search(_, _, _)
avl_trie_search(nodes, h, key) ==
  IF h = NULL THEN NULL
  ELSE IF key = nodes[h].prefix THEN h
  ELSE IF key < nodes[h].prefix THEN avl_trie_search(nodes, nodes[h].left, key)
  ELSE avl_trie_search(nodes, nodes[h].right, key)

\* the walk along a bucket chain: the first node that holds key, or NULL
RECURSIVE ChainSearch(_, _, _)
ChainSearch(nodes, h, key) ==
  IF h = NULL THEN NULL
  ELSE IF nodes[h].prefix = key THEN h
  ELSE ChainSearch(nodes, nodes[h].hash_next, key)

\* variant: a hash miss is reported as not found, without the tree search
pheno_lookup_no_fallback(t, key) ==
  ChainSearch(t.nodes, t.hash_buckets[Bucket(key)], key)

\* pheno_lookup(table, key): the node whose token is returned, or NULL
pheno_lookup(t, key) ==
  LET node == ChainSearch(t.nodes, t.hash_buckets[Bucket(key)], key)
  IN IF node # NULL THEN node
     ELSE avl_trie_search(t.nodes, t.avl_root, key)

\* the chain that starts at h, with the node n taken out
RECURSIVE ChainUnlink(_, _, _)
ChainUnlink(nodes, h, n) ==
  IF h = NULL THEN [nodes |-> nodes, head |-> NULL]
  ELSE IF h = n THEN [nodes |-> nodes, head |-> nodes[n].hash_next]
  ELSE LET r == ChainUnlink(nodes, nodes[h].hash_next, n)
       IN [nodes |-> [r.nodes EXCEPT ![h].hash_next = r.head], head |-> h]

\* the nodes reached from h through children / through hash_next; a pointer
\* to a node that no longer exists ends the walk
RECURSIVE TreeNodes(_, _)
TreeNodes(nodes, h) ==
  IF h = NULL \/ h \notin DOMAIN nodes THEN {}
  ELSE {h} \cup TreeNodes(nodes, nodes[h].left)
           \cup TreeNodes(nodes, nodes[h].right)

RECURSIVE ChainNodes(_, _)
ChainNodes(nodes, h) ==
  IF h = NULL \/ h \notin DOMAIN nodes THEN {}
  ELSE {h} \cup ChainNodes(nodes, nodes[h].hash_next)

TreeKeys(t) == {t.nodes[h].prefix : h \in TreeNodes(t.nodes, t.avl_root)}

HashNodes(t) ==
  UNION {ChainNodes(t.nodes, t.hash_buckets[b]) : b \in BucketSamples}

HashKeys(t) == {t.nodes[h].prefix : h \in HashNodes(t)}

\* insert(key, token): rejected when the key is present; the new node goes
\* to the head of its bucket chain and into the tree
index_insert(t, key) ==
  IF key \in TreeKeys(t) \cup HashKeys(t) THEN [ret |-> -1, table |-> t]
  ELSE LET n == key
           b == Bucket(key)
           n1 == [h \in DOMAIN t.nodes \cup {n} |->
                    IF h = n THEN [NewNode(key) EXCEPT
                                     !.hash_next = t.hash_buckets[b]]
                    ELSE t.nodes[h]]
           r == avl_insert(n1, t.avl_root, n)
       IN [ret |-> 0,
           table |-> [avl_root |-> r.root,
                      hash_buckets |-> [t.hash_buckets EXCEPT ![b] = n],
                      nodes |-> r.nodes,
                      total_nodes |-> t.total_nodes + 1]]

\* remove(key): rejected when the key is absent; the node leaves its chain
\* and the tree, and is freed
index_remove(t, key) ==
  LET n == pheno_lookup(t, key) IN
  IF n = NULL THEN [ret |-> -1, table |-> t]
  ELSE LET b == Bucket(key)
           c == ChainUnlink(t.nodes, t.hash_buckets[b], n)
           r == avl_remove(c.nodes, t.avl_root, key)
       IN [ret |-> 0,
           table |-> [avl_root |-> r.root,
                      hash_buckets |-> [t.hash_buckets EXCEPT ![b] = c.head],
                      nodes |-> [h \in DOMAIN r.nodes \ {n} |-> r.nodes[h]],
                      total_nodes |-> t.total_nodes - 1]]

Call_index_insert ==
  \E key \in KeySamples :
    LET r == index_insert(table, key) IN
    /\ table' = r.table
    /\ hist' = [op |-> "insert", key |-> key, ret |-> r.ret, pre |-> table]
    /\ UNCHANGED <<token, ctx, sm, thr, bits, pool, merge, bind, lib, list>>

Call_index_remove ==
  \E key \in KeySamples :
    LET r == index_remove(table, key) IN
    /\ table' = r.table
    /\ hist' = [op |-> "remove", key |-> key, ret |-> r.ret, pre |-> table]
    /\ UNCHANGED <<token, ctx, sm, thr, bits, pool, merge, bind, lib, list>>

Call_pheno_lookup ==
  \E key \in KeySamples :
    /\ hist' = [op |-> "lookup", key |-> key, ret |-> pheno_lookup(table, key),
                pre |-> table]
    /\ UNCHANGED <<token, ctx, sm, thr, bits, pool, table, merge, bind, lib, list>>

InitIndex ==
  /\ table = EmptyTable
  /\ hist = [op |-> "none", key |-> 0, ret |-> 0, pre |-> EmptyTable]
  /\ token = NullToken
  /\ ctx = CallocContext
  /\ sm = <<>>
  /\ thr = <<>>
  /\ bits = <<>>
  /\ pool = <<>>
  /\ merge = <<>>
  /\ bind = <<>>
  /\ lib = <<>>
  /\ list = <<>>

NextIndex ==
  \/ Call_index_insert
  \/ Call_index_remove
  \/ Call_pheno_lookup

SpecIndex == InitIndex /\ [][NextIndex]_vars

(***************************************************************************)
(* pheno_lookup on the tables a caller may pass: a key may be linked in    *)
(* both views, in one view only, or through two different nodes (a node    *)
(* that is linked in a chain only has the address -key).                   *)
(***************************************************************************)
LookupKeys == {3, 5, 1027}

Placements == {"absent", "both", "tree", "chain", "twice"}

\* the table with a node n allocated for key
AddNode(t, n, key) ==
  [t EXCEPT !.nodes = [h \in DOMAIN t.nodes \cup {n} |->
                         IF h = n THEN NewNode(key) ELSE t.nodes[h]],
            !.total_nodes = @ + 1]

\* the node n linked into the tree / put at the head of its bucket chain
LinkTree(t, n) ==
  LET r == avl_insert(t.nodes, t.avl_root, n)
  IN [t EXCEPT !.nodes = r.nodes, !.avl_root = r.root]

LinkChain(t, n) ==
  LET b == Bucket(t.nodes[n].prefix)
  IN [t EXCEPT !.nodes[n].hash_next = t.hash_buckets[b],
               !.hash_buckets[b] = n]

Place(t, key, p) ==
  IF p = "absent" THEN t
  ELSE IF p = "both" THEN LinkChain(LinkTree(AddNode(t, key, key), key), key)
  ELSE IF p = "tree" THEN LinkTree(AddNode(t, key, key), key)
  ELSE IF p = "chain" THEN LinkChain(AddNode(t, -key, key), -key)
  ELSE LinkChain(AddNode(LinkTree(AddNode(t, key, key), key), -key, key), -key)

\* the table built by placing the keys of order one after the other
RECURSIVE BuildTable(_, _)
BuildTable(order, placement) ==
  IF order = <<>> THEN EmptyTable
  ELSE Place(BuildTable(Tail(order), placement), Head(order),
             placement[Head(order)])

LookupOrders == {<<3, 5, 1027>>, <<1027, 5, 3>>}

InitLookup ==
  /\ \E order \in LookupOrders, placement \in [LookupKeys -> Placements] :
       table = BuildTable(order, placement)
  /\ hist = [op |-> "none", key |-> 0, ret |-> 0, pre |-> EmptyTable]
  /\ token = NullToken
  /\ ctx = CallocContext
  /\ sm = <<>>
  /\ thr = <<>>
  /\ bits = <<>>
  /\ pool = <<>>
  /\ merge = <<>>
  /\ bind = <<>>
  /\ lib = <<>>
  /\ list = <<>>

NextLookup == Call_pheno_lookup

SpecLookup == InitLookup /\ [][NextLookup]_vars

(***************************************************************************)
(* map_obj_to_obj: relation merges.  One destination relation takes a      *)
(* sequence of merges; merge.src is the source object as the last call     *)
(* left it.  Source and destination are different objects, as in the loop  *)
(* of main (tokens[i] into tokens[i+1]).                                   *)
(***************************************************************************)
\* merges made into one destination relation
MaxMerges == 3

\* a | b on non-negative integers
RECURSIVE BitOr(_, _)
BitOr(a, b) ==
  IF a = 0 THEN b
  ELSE IF b = 0 THEN a
  ELSE (IF (a % 2) + (b % 2) > 0 THEN 1 ELSE 0) + 2 * BitOr(a \div 2, b \div 2)

\* variant: subject_id is merged with | as instance_state is
map_obj_to_obj_or_merge(src, dst) ==
  LET d1 == RelationStore(dst, "subject_id",
                          BitOr(src.subject_id, dst.subject_id))
      d2 == RelationStore(d1, "class_id", BitXor(src.class_id, d1.class_id))
      d3 == RelationStore(d2, "instance_state",
                          BitOr(d2.instance_state, src.instance_state))
      d4 == RelationStore(d3, "person_state", ROTATE_LEFT(src.person_state, 2))
  IN [src |-> src, dst |-> d4]

\* map_obj_to_obj(src, dst): the two objects after the call
map_obj_to_obj(src, dst) ==
  LET d1 == RelationStore(dst, "subject_id",
                          BitXor(src.subject_id, dst.subject_id))
      d2 == RelationStore(d1, "class_id", BitXor(src.class_id, d1.class_id))
      d3 == RelationStore(d2, "instance_state",
                          BitOr(d2.instance_state, src.instance_state))
      d4 == RelationStore(d3, "person_state", ROTATE_LEFT(src.person_state, 2))
  IN [src |-> src, dst |-> d4]

\* relations as parse_token_file hands them to the loop of main
ParsedRelations ==
  {parse_token_file_deprecated(0, tt, <<4660, 22136>>).relation :
     tt \in ByteSamples}

\* person_state values of a source: 7 from the parser, 193 after merges
\* along the token array (7 -> 28 -> 112 -> 193)
PersonStateSamples == {7, 193}

MergeSources ==
  {[r EXCEPT !.person_state = ps] :
     r \in ParsedRelations, ps \in PersonStateSamples}

MergeDestinations == ParsedRelations \cup {ZeroRelation}

Call_map_obj_to_obj ==
  /\ Len(merge.sources) < MaxMerges
  /\ \E src \in MergeSources :
       LET r == map_obj_to_obj(src, merge.dst) IN
       merge' = [merge EXCEPT !.dst = r.dst, !.src = r.src,
                              !.sources = Append(@, src)]
  /\ UNCHANGED <<token, ctx, hist, sm, thr, bits, pool, table, bind, lib, list>>

InitMerge ==
  /\ \E d \in MergeDestinations :
       merge = [dst0 |-> d, dst |-> d, src |-> ZeroRelation, sources |-> <<>>]
  /\ hist = NoHist
  /\ token = NullToken
  /\ ctx = CallocContext
  /\ sm = <<>>
  /\ thr = <<>>
  /\ bits = <<>>
  /\ pool = <<>>
  /\ table = <<>>
  /\ bind = <<>>
  /\ lib = <<>>
  /\ list = <<>>

NextMerge == Call_map_obj_to_obj

SpecMerge == InitMerge /\ [][NextMerge]_vars

(***************************************************************************)
(* quantum_bind (src/unnamed/part_007): thread_count workers run           *)
(* parallel_bind_worker on the same binding.  The workers take no lock     *)
(* and use no atomic, so the load of array[i] and the store to array[i]    *)
(* are steps of their own.                                                 *)
(***************************************************************************)
\* largest thread_count handed to quantum_bind
MaxBindThreads == 2
\* universe_size: the elements of the target array
UniverseSize == 3

\* *everything in the comments and the README test
EVERYTHING == 42

BindWorkers == 1..MaxBindThreads

\* the target array before the call
Universe == [i \in 1..UniverseSize |-> i]

\* a thread of binding->threads: pc "none" until pthread_create starts it,
\* i the loop index (from 1), tmp the array[i] it loaded
NoWorker == [pc |-> "none", i |-> 1, tmp |-> 0]

\* quantum_bind(everything, universe, universe_size, thread_count): the two
\* malloc calls; either may fail and the call returns -1
Call_quantum_bind ==
  /\ bind.pc = "idle"
  /\ \E bindingOk \in BOOLEAN, threadsOk \in BOOLEAN :
       bind' = IF bindingOk /\ threadsOk
               THEN [bind EXCEPT !.pc = "launch"]
               ELSE [bind EXCEPT !.pc = "returned", !.ret = -1]
  /\ UNCHANGED <<token, ctx, hist, sm, thr, bits, pool, table, merge, lib, list>>

\* the launch loop: pthread_create of the next thread; when it fails the
\* call returns -1 and the threads already started keep running
LaunchThread ==
  /\ bind.pc = "launch"
  /\ \E created \in BOOLEAN :
       LET k == bind.launched + 1 IN
       bind' = IF ~created
               THEN [bind EXCEPT !.pc = "returned", !.ret = -1]
               ELSE [bind EXCEPT
                       !.launched = k,
                       !.w[k].pc = IF UniverseSize = 0 THEN "done" ELSE "load",
                       !.pc = IF k = bind.thread_count THEN "join"
                              ELSE "launch"]
  /\ UNCHANGED <<token, ctx, hist, sm, thr, bits, pool, table, merge, lib, list>>

\* parallel_bind_worker, array[i] = array[i] + (*value): the load of array[i]
WorkerLoad(k) ==
  /\ bind.w[k].pc = "load"
  /\ bind' = [bind EXCEPT !.w[k].tmp = bind.array[bind.w[k].i],
                          !.w[k].pc = "store"]
  /\ UNCHANGED <<token, ctx, hist, sm, thr, bits, pool, table, merge, lib, list>>

\* parallel_bind_worker: the store to array[i], then i++
WorkerStore(k) ==
  /\ bind.w[k].pc = "store"
  /\ bind' = [bind EXCEPT !.array[bind.w[k].i] = bind.w[k].tmp + bind.value,
                          !.w[k].i = @ + 1,
                          !.w[k].pc = IF bind.w[k].i = UniverseSize
                                      THEN "done" ELSE "load"]
  /\ UNCHANGED <<token, ctx, hist, sm, thr, bits, pool, table, merge, lib, list>>

\* the join loop: pthread_join of the next thread returns once that thread
\* has ended; after the last one the call frees the binding and returns 0
JoinThread ==
  /\ bind.pc = "join"
  /\ bind.w[bind.joined + 1].pc = "done"
  /\ bind' = IF bind.joined + 1 = bind.thread_count
             THEN [bind EXCEPT !.joined = @ + 1, !.pc = "returned", !.ret = 0]
             ELSE [bind EXCEPT !.joined = @ + 1]
  /\ UNCHANGED <<token, ctx, hist, sm, thr, bits, pool, table, merge, lib, list>>

InitBind ==
  /\ \E thread_count \in BindWorkers :
       bind = [pc |-> "idle", ret |-> 0, value |-> EVERYTHING,
               array |-> Universe, thread_count |-> thread_count,
               launched |-> 0, joined |-> 0,
               w |-> [k \in BindWorkers |-> NoWorker]]
  /\ token = NullToken
  /\ ctx = CallocContext
  /\ hist = NoHist
  /\ sm = <<>>
  /\ thr = <<>>
  /\ bits = <<>>
  /\ pool = <<>>
  /\ table = <<>>
  /\ merge = <<>>
  /\ lib = <<>>
  /\ list = <<>>

NextBind ==
  \/ Call_quantum_bind
  \/ LaunchThread
  \/ JoinThread
  \/ \E k \in BindWorkers : WorkerLoad(k) \/ WorkerStore(k)

SpecBind == InitBind /\ [][NextBind]_vars

(***************************************************************************)
(* gosiuml_init and gosiuml_cleanup (pheno_memory.c) called by threads at  *)
(* the same time.  g_gosiuml_state.initialized is a plain bool and the     *)
(* functions take no lock, so the test of the flag, the pthread call and   *)
(* the store to the flag are steps of their own.                           *)
(***************************************************************************)
\* a thread outside both functions; ret is what its last gosiuml_init gave
IdleCaller == [pc |-> "idle", ret |-> 0]

\* g_gosiuml_state after static initialisation.  mutex tells whether the
\* pthread mutex is initialised; reinitialised / redestroyed record that
\* pthread_mutex_init ran on an initialised mutex, or pthread_mutex_destroy
\* on one that is not.
StaticLibraryState ==
  [initialized |-> FALSE, mutex |-> FALSE, reinitialised |-> FALSE,
   redestroyed |-> FALSE, th |-> [i \in Threads |-> IdleCaller]]

\* a thread enters gosiuml_init or gosiuml_cleanup
LibraryCall(i) ==
  /\ lib.th[i].pc = "idle"
  /\ \E pc \in {"init_test", "cleanup_test"} :
       lib' = [lib EXCEPT !.th[i].pc = pc]
  /\ UNCHANGED <<token, ctx, hist, sm, thr, bits, pool, table, merge, bind, list>>

\* gosiuml_init: if (g_gosiuml_state.initialized) return 0;
InitTest(i) ==
  /\ lib.th[i].pc = "init_test"
  /\ lib' = IF lib.initialized
            THEN [lib EXCEPT !.th[i] = [pc |-> "idle", ret |-> 0]]
            ELSE [lib EXCEPT !.th[i].pc = "init_mutex"]
  /\ UNCHANGED <<token, ctx, hist, sm, thr, bits, pool, table, merge, bind, list>>

\* gosiuml_init: pthread_mutex_init(&mutex, NULL); it may fail, and
\* gosiuml_init then returns -1
InitMutex(i) ==
  /\ lib.th[i].pc = "init_mutex"
  /\ \E ok \in BOOLEAN :
       lib' = IF ~ok
              THEN [lib EXCEPT !.th[i] = [pc |-> "idle", ret |-> -1]]
              ELSE [lib EXCEPT !.mutex = TRUE,
                               !.reinitialised = @ \/ lib.mutex,
                               !.th[i].pc = "init_store"]
  /\ UNCHANGED <<token, ctx, hist, sm, thr, bits, pool, table, merge, bind, list>>

\* gosiuml_init: g_gosiuml_state.initialized = true; return 0;
InitStore(i) ==
  /\ lib.th[i].pc = "init_store"
  /\ lib' = [lib EXCEPT !.initialized = TRUE,
                        !.th[i] = [pc |-> "idle", ret |-> 0]]
  /\ UNCHANGED <<token, ctx, hist, sm, thr, bits, pool, table, merge, bind, list>>

\* gosiuml_cleanup: if (g_gosiuml_state.initialized)
CleanupTest(i) ==
  /\ lib.th[i].pc = "cleanup_test"
  /\ lib' = IF lib.initialized
            THEN [lib EXCEPT !.th[i].pc = "cleanup_destroy"]
            ELSE [lib EXCEPT !.th[i].pc = "idle"]
  /\ UNCHANGED <<token, ctx, hist, sm, thr, bits, pool, table, merge, bind, list>>

\* gosiuml_cleanup: pthread_mutex_destroy(&mutex);
CleanupDestroy(i) ==
  /\ lib.th[i].pc = "cleanup_destroy"
  /\ lib' = [lib EXCEPT !.mutex = FALSE,
                        !.redestroyed = @ \/ ~lib.mutex,
                        !.th[i].pc = "cleanup_store"]
  /\ UNCHANGED <<token, ctx, hist, sm, thr, bits, pool, table, merge, bind, list>>

\* gosiuml_cleanup: g_gosiuml_state.initialized = false;
CleanupStore(i) ==
  /\ lib.th[i].pc = "cleanup_store"
  /\ lib' = [lib EXCEPT !.initialized = FALSE, !.th[i].pc = "idle"]
  /\ UNCHANGED <<token, ctx, hist, sm, thr, bits, pool, table, merge, bind, list>>

InitLibrary ==
  /\ lib = StaticLibraryState
  /\ token = NullToken
  /\ ctx = CallocContext
  /\ hist = NoHist
  /\ sm = <<>>
  /\ thr = <<>>
  /\ bits = <<>>
  /\ pool = <<>>
  /\ table = <<>>
  /\ merge = <<>>
  /\ bind = <<>>
  /\ list = <<>>

NextLibrary ==
  \E i \in Threads :
    \/ LibraryCall(i)
    \/ InitTest(i)
    \/ InitMutex(i)
    \/ InitStore(i)
    \/ CleanupTest(i)
    \/ CleanupDestroy(i)
    \/ CleanupStore(i)

SpecLibrary == InitLibrary /\ [][NextLibrary]_vars

(***************************************************************************)
(* TokenList of the lexer (src/unnamed/part_003, token.h): a growing       *)
(* array.  hasBuffer = FALSE stands for list->tokens == NULL; tokens holds *)
(* the stored elements, tokens[i + 1] being the C element tokens[i].       *)
(* adds numbers the token_list_add calls (the n-th call adds token n),     *)
(* since lists the tokens added since the last init or free, and last is   *)
(* the C index the last add stored at (-1: none since the last init/free). *)
(***************************************************************************)
\* token_list_add calls made in all
MaxListAdds == 34

\* the capacity token_list_init allocates
INITIAL_CAPACITY == 32

\* token_list_init(list); malloc may fail, and the result is not tested
Call_token_list_init ==
  /\ \E mallocOk \in BOOLEAN :
       list' = [list EXCEPT !.tokens = <<>>, !.hasBuffer = mallocOk,
                            !.count = 0, !.capacity = INITIAL_CAPACITY,
                            !.since = <<>>, !.last = -1]
  /\ UNCHANGED <<token, ctx, hist, sm, thr, bits, pool, table, merge, bind, lib>>

\* token_list_add(list, token).  realloc may fail, and realloc(p, 0) gives
\* NULL or a block of no usable size; neither is tested.  A store through
\* NULL ends the process (no successor); a store past the block either ends
\* the process or lands outside the block.
Call_token_list_add ==
  /\ list.adds < MaxListAdds
  /\ \E reallocOk \in BOOLEAN, overrun \in BOOLEAN :
       LET grow == list.count >= list.capacity
           capacity == IF grow THEN list.capacity * 2 ELSE list.capacity
           hasBuffer == IF grow THEN reallocOk ELSE list.hasBuffer
           t == list.adds + 1
       IN /\ hasBuffer
          /\ list.count < capacity \/ overrun
          /\ list' = [list EXCEPT !.capacity = capacity,
                                  !.hasBuffer = hasBuffer,
                                  !.tokens = Append(@, t),
                                  !.count = @ + 1,
                                  !.adds = t,
                                  !.since = Append(@, t),
                                  !.last = list.count]
  /\ UNCHANGED <<token, ctx, hist, sm, thr, bits, pool, table, merge, bind, lib>>

\* token_list_free(list): frees the lexemes and the array
Call_token_list_free ==
  /\ list' = [list EXCEPT !.tokens = <<>>, !.hasBuffer = FALSE,
                          !.count = 0, !.capacity = 0,
                          !.since = <<>>, !.last = -1]
  /\ UNCHANGED <<token, ctx, hist, sm, thr, bits, pool, table, merge, bind, lib>>

\* the list right after its first token_list_init
InitList ==
  /\ \E mallocOk \in BOOLEAN :
       list = [tokens |-> <<>>, hasBuffer |-> mallocOk, count |-> 0,
               capacity |-> INITIAL_CAPACITY, adds |-> 0, since |-> <<>>,
               last |-> -1]
  /\ token = NullToken
  /\ ctx = CallocContext
  /\ hist = NoHist
  /\ sm = <<>>
  /\ thr = <<>>
  /\ bits = <<>>
  /\ pool = <<>>
  /\ table = <<>>
  /\ merge = <<>>
  /\ bind = <<>>
  /\ lib = <<>>

NextList ==
  \/ Call_token_list_init
  \/ Call_token_list_add
  \/ Call_token_list_free

SpecList == InitList /\ [][NextList]_vars

(***************************************************************************)
(* Lifecycle claims, checked under Spec                                    *)
(***************************************************************************)
\* The legal-edge table of the lifecycle state machine
LegalEdge(S, X) ==
  \/ S = STATE_NIL /\ X = STATE_ALLOCATED
  \/ S = STATE_ALLOCATED /\ X = STATE_LOCKED
  \/ S = STATE_LOCKED /\ X = STATE_ACTIVE
  \/ S = STATE_ACTIVE /\ X = STATE_DEGRADED
  \/ S = STATE_ACTIVE /\ X = STATE_LOCKED
  \/ S = STATE_DEGRADED /\ X = STATE_LOCKED
  \/ S # STATE_FREED /\ X = STATE_FREED

TransitionCalled == hist.op = "transition" /\ hist.pre.live

\* C1: gosiuml_transition(token, X) on a token in state S returns 0 exactly
\* when (S,X) is a legal edge, and -1 for every other pair.
C1_TransitionIffLegalEdge ==
  TransitionCalled =>
    (hist.ret = 0 <=> LegalEdge(gosiuml_get_state(hist.pre), hist.arg))

\* C2: a gosiuml_transition call that returns -1 leaves the token exactly as
\* it was: flags, metrics and the state gosiuml_get_state reports.
C2_FailedTransitionLeavesToken ==
  (hist.op = "transition" /\ hist.ret = -1) =>
    /\ token = hist.pre
    /\ gosiuml_get_state(token) = gosiuml_get_state(hist.pre)

\* C2 witness: a live, allocated and locked token had a request rejected
C2_Witness ==
  /\ TransitionCalled /\ hist.ret = -1
  /\ hist.pre.allocated = 1 /\ hist.pre.locked = 1
  /\ hist.arg = STATE_LOCKED

\* C3: once gosiuml_transition(token, STATE_FREED) has succeeded, no later
\* gosiuml_transition on that token succeeds and the token stays unallocated.
C3_FreedIsTerminal ==
  (TransitionCalled /\ hist.preFreed) =>
    hist.ret = -1 /\ token.allocated = 0

\* C4: from every state of an allocated token (LOCKED, ACTIVE, DEGRADED,
\* SHARED), gosiuml_transition(token, STATE_FREED) returns 0, clears allocated
\* and locked, and gosiuml_get_state then reports NIL.
C4_DestroyClearsFlags ==
  (TransitionCalled /\ hist.arg = STATE_FREED /\ hist.pre.allocated = 1) =>
    /\ hist.ret = 0
    /\ token.allocated = 0 /\ token.locked = 0
    /\ gosiuml_get_state(token) = STATE_NIL

\* C4 witness: a locked token was destroyed
C4_Witness ==
  /\ TransitionCalled /\ hist.arg = STATE_FREED
  /\ gosiuml_get_state(hist.pre) = STATE_LOCKED
  /\ hist.ret = 0

\* C5: a destroy (transition to FREED, or gosiuml_free_token) of a token whose
\* ref_count is not zero is refused and leaves the token unchanged.
C5_DestroyNeedsZeroRefCount ==
  /\ (TransitionCalled /\ hist.arg = STATE_FREED /\ hist.pre.ref_count # 0) =>
       hist.ret = -1 /\ token = hist.pre
  /\ (hist.op = "free" /\ hist.pre.ref_count # 0) => token = hist.pre

\* C8: on an allocated, unlocked, unshared token with a payload,
\* gosiuml_get_state reports DEGRADED exactly when score/1023 > 0.6, that is
\* 10*score > 6138, which is exactly when transition_active_to_degraded moves
\* the token from ACTIVE to DEGRADED.
C8_DegradedThresholdConsistent ==
  (/\ token.live /\ token.hasValue
   /\ token.allocated = 1 /\ token.locked = 0 /\ token.shared = 0) =>
    LET degraded == gosiuml_get_state(token) = STATE_DEGRADED IN
    /\ degraded <=> (10 * token.score > 6138)
    /\ degraded <=>
         (transition_active_to_degraded(token).next = STATE_DEGRADED)

\* C9: a token without payload scores 0.0 and gosiuml_get_state never reports
\* it DEGRADED, whatever its flags are.
C9_NoPayloadNeverDegraded ==
  (token.live /\ ~token.hasValue) =>
    /\ calculate_degradation_score(token) = F32Zero
    /\ gosiuml_get_state(token) # STATE_DEGRADED

\* C9 witness: a payload-less token that is allocated, unlocked and unshared,
\* so that gosiuml_get_state reaches its score test
C9_Witness ==
  /\ token.live /\ ~token.hasValue
  /\ token.allocated = 1 /\ token.locked = 0 /\ token.shared = 0
  /\ gosiuml_get_state(token) = STATE_ACTIVE

(***************************************************************************)
(* StateMachine claims, checked under SpecSM                               *)
(***************************************************************************)
\* the machines that have taken the ALLOCATED -> LOCKED step
Holders ==
  {i \in Machines :
     sm[i].current_state \in {STATE_LOCKED, STATE_ACTIVE, STATE_DEGRADED}}

LockRequested ==
  hist.op = "step" /\ hist.from = STATE_ALLOCATED /\ hist.arg = STATE_LOCKED

\* C6: the compare-and-set of transition_allocated_to_locked gives mutual
\* exclusion without blocking: at most one machine ever gets past ALLOCATED on
\* the shared token, the step is always available to a machine in ALLOCATED,
\* and a request made while locked = 1 leaves the requester in ALLOCATED and
\* the token unchanged.
C6_LockIsExclusiveAndNonBlocking ==
  /\ Cardinality(Holders) <= 1
  /\ (LockRequested /\ hist.pre.locked = 1) =>
        /\ hist.ret = STATE_ALLOCATED
        /\ sm[hist.who].current_state = STATE_ALLOCATED
        /\ token = hist.pre
  /\ (LockRequested /\ hist.ret = STATE_LOCKED) =>
        hist.pre.locked = 0 /\ token.locked = 1
  /\ \A i \in Machines :
        (sm[i].current_state = STATE_ALLOCATED
           /\ StepsMade(NumMachines) < MaxSteps)
          => ENABLED step_state_machine(i)

\* C6 witness: one machine holds the lock and another machine's request has
\* just been turned away
C6_Witness ==
  /\ LockRequested /\ hist.pre.locked = 1
  /\ hist.ret = STATE_ALLOCATED
  /\ \E j \in Machines : j # hist.who /\ j \in Holders

(***************************************************************************)
(* Concurrent library calls, checked under SpecConc                        *)
(***************************************************************************)
AllReturned == \A i \in Threads : thr[i].pc = "done"

\* C7: when threads concurrently request the lock on the same unlocked token
\* through gosiuml_transition(token, STATE_LOCKED) or gosiuml_process_token,
\* exactly one of them locks it, and gosiuml_process_token counts one
\* transition in total.
C7_ExactlyOneCallerLocks ==
  AllReturned =>
    /\ Cardinality({i \in Threads : thr[i].acquired}) = 1
    /\ (\A i \in Threads : thr[i].op = "process") => ctx.transition_count = 1

(***************************************************************************)
(* Packed-field claims, checked under SpecCodec                            *)
(***************************************************************************)
FieldNames(layout) == {layout[k].name : k \in 1..Len(layout)}

WidthOf(struct, name) ==
  Layouts[struct][FieldIndex(Layouts[struct], name)].width

\* every field of struct other than name reads the same in w1 and w2
OthersKept(struct, name, w1, w2) ==
  \A g \in FieldNames(Layouts[struct]) \ {name} :
    BitfieldLoad(w1, Layouts[struct], g) = BitfieldLoad(w2, Layouts[struct], g)

BitfieldStored == hist.op = "store" /\ hist.struct \in DOMAIN Layouts

RelationStored == hist.op = "store" /\ hist.struct = "relation"

\* C10: a value written to a packed field reads back as itself when it fits
\* the field's width and as value mod 2^width otherwise, every other field
\* keeps its value, and the 32-bit token value is put together again exactly
\* from subject_type, subject_state, subject_class and person_id.
C10_PackedFieldsRoundTrip ==
  /\ BitfieldStored =>
       LET other == IF hist.struct = "type" THEN "mem_flags" ELSE "type"
           read == BitfieldLoad(bits[hist.struct], Layouts[hist.struct],
                                hist.field)
           width == WidthOf(hist.struct, hist.field)
       IN /\ read = hist.arg % Pow2(width)
          /\ hist.arg < Pow2(width) => read = hist.arg
          /\ OthersKept(hist.struct, hist.field, hist.pre[hist.struct],
                        bits[hist.struct])
          /\ bits[other] = hist.pre[other]
          /\ bits.relation = hist.pre.relation
  /\ RelationStored =>
       /\ bits.relation[hist.field] = hist.arg % Pow2(BYTE_BITS)
       /\ hist.arg < Pow2(BYTE_BITS) => bits.relation[hist.field] = hist.arg
       /\ \A g \in RelationFields \ {hist.field} :
            bits.relation[g] = hist.pre.relation[g]
       /\ bits.mem_flags = hist.pre.mem_flags /\ bits.type = hist.pre.type
  /\ hist.op = "parse_deprecated" =>
       /\ Reassemble(bits.relation) = bits.token_value
       /\ bits.token_value = hist.arg

\* C10 witness: a value wider than ref_count was stored while the
\* neighbouring fields allocated and mem_zone were set
C10_Witness ==
  /\ BitfieldStored /\ hist.field = "ref_count"
  /\ hist.arg >= Pow2(WidthOf("mem_flags", "ref_count"))
  /\ BitfieldLoad(hist.pre.mem_flags, MemFlagsLayout, "mem_zone") = 15
  /\ BitfieldLoad(hist.pre.mem_flags, MemFlagsLayout, "allocated") = 1

(***************************************************************************)
(* Claims on StateMachines and library calls together, under SpecShared    *)
(***************************************************************************)
StoreOps == {"step", "transition", "process", "get_state"}

\* the token was ACTIVE when the last operation began: for a StateMachine by
\* its current_state, for a library call by gosiuml_get_state
WasActive ==
  IF hist.op = "step" THEN hist.from = STATE_ACTIVE
  ELSE gosiuml_get_state(hist.pre) = STATE_ACTIVE

\* C11: no operation of the store (gosiuml_process_token, gosiuml_transition,
\* gosiuml_get_state, step_state_machine with its transition functions) lowers
\* metrics.score, in ACTIVE or in any other state, so the score read in ACTIVE
\* never decreases along a sequence of operations.
C11_ScoreNeverLowered ==
  (hist.op \in StoreOps /\ hist.pre.live /\ hist.pre.hasValue) =>
    /\ token.live /\ token.hasValue
    /\ token.score >= hist.pre.score
    /\ WasActive => token.score >= hist.pre.score

\* C11 witness: a machine in ACTIVE has run transition_active_to_degraded on a
\* score above the threshold, which writes metrics.score
C11_Witness ==
  /\ hist.op = "step" /\ hist.from = STATE_ACTIVE
  /\ hist.ret = STATE_DEGRADED
  /\ hist.pre.score = 614
  /\ token.score = 614

(***************************************************************************)
(* Hybrid Index claims, checked under SpecIndex                            *)
(***************************************************************************)
\* every pointer held by a view: the root, the bucket heads and the links of
\* the nodes reached through them
ViewPointers(t) ==
  {t.avl_root} \cup {t.hash_buckets[b] : b \in BucketSamples}
  \cup UNION {{t.nodes[h].left, t.nodes[h].right} :
                h \in TreeNodes(t.nodes, t.avl_root)}
  \cup {t.nodes[h].hash_next : h \in HashNodes(t)}

\* C12: after every insert or remove the bucket chains and the tree hold
\* exactly the same set of keys, and no view points to a node that was freed.
C12_ViewsHoldSameKeys ==
  /\ TreeKeys(table) = HashKeys(table)
  /\ TreeNodes(table.nodes, table.avl_root) = HashNodes(table)
  /\ ViewPointers(table) \subseteq DOMAIN table.nodes \cup {NULL}
  /\ Cardinality(TreeKeys(table)) = table.total_nodes

\* C12 witness: the node of key 3, which had two children in the tree and
\* shared its bucket chain with 1027, was removed and other nodes remain
C12_Witness ==
  /\ hist.op = "remove" /\ hist.ret = 0
  /\ hist.key = 3
  /\ 1027 \in HashKeys(hist.pre)
  /\ hist.pre.nodes[3].left # NULL /\ hist.pre.nodes[3].right # NULL
  /\ table.total_nodes >= 3

AllNodesBalanced(t) ==
  \A h \in TreeNodes(t.nodes, t.avl_root) :
    /\ t.nodes[h].balance_factor \in {-1, 0, 1}
    /\ t.nodes[h].balance_factor =
         Height(t.nodes, t.nodes[h].left) - Height(t.nodes, t.nodes[h].right)

\* C13: after any insert or remove into the ordered view every node has
\* balance_factor in {-1,0,1}: the rebalancing step rotates a left-heavy node
\* to the right (after rotating a right-heavy left child to the left) and a
\* right-heavy node the other way round.
C13_EveryNodeBalanced ==
  hist.op \in {"insert", "remove"} => AllNodesBalanced(table)

(***************************************************************************)
(* pheno_lookup, checked under SpecLookup                                  *)
(***************************************************************************)
\* the nodes of the chain of key's bucket that hold key
ChainEntries(t, key) ==
  {h \in ChainNodes(t.nodes, t.hash_buckets[hash_function(key) % HASH_BUCKETS]) :
     t.nodes[h].prefix = key}

\* the nodes of the tree that hold key
TreeEntries(t, key) ==
  {h \in TreeNodes(t.nodes, t.avl_root) : t.nodes[h].prefix = key}

\* C14: pheno_lookup(table, key) returns the entry of the chain of bucket
\* hash(key) mod 1024 when that chain holds the key, otherwise the entry the
\* tree search finds, and NULL exactly when the key is in neither view.
C14_LookupChainThenTree ==
  hist.op = "lookup" =>
    LET inChain == ChainEntries(table, hist.key)
        inTree == TreeEntries(table, hist.key)
    IN /\ inChain # {} => hist.ret \in inChain
       /\ (inChain = {} /\ inTree # {}) => hist.ret \in inTree
       /\ hist.ret = NULL <=> (inChain = {} /\ inTree = {})

\* C14 witness: 1027 is found through the tree after the walk along the
\* chain of its bucket, which holds 3 only
C14_Witness ==
  /\ hist.op = "lookup" /\ hist.key = 1027
  /\ ChainEntries(table, 1027) = {}
  /\ ChainEntries(table, 3) # {}
  /\ hist.ret # NULL /\ hist.ret \in TreeEntries(table, 1027)

(***************************************************************************)
(* Creation claims: C15 under SpecPool, C16 to C18 under Spec              *)
(***************************************************************************)
\* C15: two tokens made by gosiuml_create_token or pheno_token_alloc that are
\* live at the same time have different token_id values.
C15_LiveTokenIdsDiffer ==
  \A h1, h2 \in Handles :
    (h1 # h2 /\ pool[h1].live /\ pool[h2].live) =>
      pool[h1].token_id # pool[h2].token_id

Created == hist.op = "create" /\ hist.ret = 0

\* C16: right after a successful gosiuml_create_token, gosiuml_get_state
\* reports ALLOCATED, so that the first lock request on the fresh token takes
\* the ALLOCATED -> LOCKED edge.
C16_CreatedTokenIsAllocated ==
  Created => gosiuml_get_state(token) = STATE_ALLOCATED

\* C17: a token returned by gosiuml_create_token has allocated = 1,
\* ref_count = 1 and every other memory flag 0, and gosiuml_get_state reports
\* ACTIVE; when gosiuml_transition(token, STATE_LOCKED) then returns 0,
\* gosiuml_get_state reports LOCKED.
C17_CreatedTokenIsActive ==
  /\ Created =>
       /\ token.live
       /\ token.allocated = 1 /\ token.ref_count = 1
       /\ token.locked = 0 /\ token.shared = 0 /\ token.coherent = 0
       /\ gosiuml_get_state(token) = STATE_ACTIVE
  /\ (TransitionCalled /\ hist.arg = STATE_LOCKED /\ hist.ret = 0) =>
       gosiuml_get_state(token) = STATE_LOCKED

\* C17 witness: the lock request made on a token as gosiuml_create_token
\* returned it has succeeded
C17_Witness ==
  /\ TransitionCalled /\ hist.arg = STATE_LOCKED /\ hist.ret = 0
  /\ hist.pre = gosiuml_create_token(TRUE, TRUE)
  /\ token.locked = 1

\* C18: gosiuml_get_state returns NIL exactly when the token is absent (NULL)
\* or its allocated flag is 0, whatever the locked, shared and score fields
\* hold.
C18_NilIffNotAllocated ==
  /\ gosiuml_get_state(token) = STATE_NIL
       <=> (~token.live \/ token.allocated = 0)
  /\ \A l \in {0, 1}, sh \in {0, 1}, sc \in ScoreSamples :
       gosiuml_get_state([token EXCEPT !.locked = l, !.shared = sh,
                                       !.score = sc]) = STATE_NIL
         <=> (~token.live \/ token.allocated = 0)

\* C18 witness: a record whose allocated flag was cleared while its shared
\* flag is set and its score is above 600
C18_Witness ==
  /\ token.live /\ token.allocated = 0
  /\ token.shared = 1 /\ token.hasValue /\ token.score > 600

\* the last step ran the branch of transition_active_to_degraded that stores
\* value->metrics.score
PayloadWritten ==
  hist.op = "step" /\ hist.from = STATE_ACTIVE /\ hist.ret = STATE_DEGRADED

\* the machines whose next step may store the payload
Writers == {i \in Machines : sm[i].current_state = STATE_ACTIVE}

\* C19: the payload is written only by a holder of the token's locked bit:
\* each store to value->metrics is made while locked is 1 and was set by the
\* writer, and no two parties are in a position to store at the same time.
C19_PayloadWrittenByLockHolder ==
  /\ PayloadWritten =>
       /\ hist.pre.locked = 1 /\ token.locked = 1
       /\ hist.owner = hist.who
  /\ Cardinality(Writers) <= 1

(***************************************************************************)
(* Relation merges, checked under SpecMerge                                *)
(***************************************************************************)
\* the destination after the sources of srcs were merged into d in turn
RECURSIVE MergeAll(_, _)
MergeAll(srcs, d) ==
  IF srcs = <<>> THEN d
  ELSE MergeAll(Tail(srcs), map_obj_to_obj(Head(srcs), d).dst)

\* srcs with the entries at i and j exchanged
Swapped(srcs, i, j) ==
  [k \in 1..Len(srcs) |->
     IF k = i THEN srcs[j] ELSE IF k = j THEN srcs[i] ELSE srcs[k]]

\* rotation of the 8-bit value v to the left by 2
Rotl8By2(v) == ((v * 4) % 256) + (v \div 64)

C21_BindAddsValueOncePerThread ==
  (bind.pc = "returned" /\ bind.ret = 0) =>
    /\ \A i \in 1..UniverseSize :
         bind.array[i] = Universe[i] + (bind.thread_count * EVERYTHING)
    /\ bind.value = EVERYTHING

\* C22: a StateMachine step LOCKED -> ACTIVE succeeds exactly when the token
\* has a payload and metrics.confidence > 100, and then sets coherent;
\* otherwise the machine stays in LOCKED and coherent is unchanged.  Hence a
\* machine in ACTIVE or DEGRADED has a token with coherent = 1 and locked = 1.
C22_ActiveNeedsProofAndSetsCoherent ==
  /\ (hist.op = "step" /\ hist.from = STATE_LOCKED /\ hist.arg = STATE_ACTIVE) =>
       IF hist.pre.live /\ hist.pre.hasValue /\ hist.pre.confidence > 100
       THEN /\ sm[hist.who].current_state = STATE_ACTIVE
            /\ token.coherent = 1
       ELSE /\ sm[hist.who].current_state = STATE_LOCKED
            /\ token.coherent = hist.pre.coherent
  /\ \A i \in DOMAIN sm :
       sm[i].current_state \in {STATE_ACTIVE, STATE_DEGRADED} =>
         token.coherent = 1 /\ token.locked = 1

\* C23: a step_state_machine call whose (current_state, target_state) pair
\* has no registered transition function changes nothing: the machine's
\* current_state and transition_count and the token are as before.
C23_UnregisteredStepMutatesNothing ==
  [][(hist'.op = "step" /\ ~Registered(hist'.from, hist'.arg)) =>
       (token' = token /\ sm' = sm)]_vars

\* C24: allocation failure never yields a half-created token:
\* gosiuml_create_token returns NULL rather than a token without a payload,
\* a NIL -> ALLOCATED step whose allocation failed leaves the machine in NIL,
\* and a machine that is not in NIL has a non-null token with a payload.
C24_AllocationFailureSurfaced ==
  /\ (hist.op = "create" /\ token.live) => token.hasValue
  /\ (/\ hist.op = "step"
      /\ hist.from = STATE_NIL /\ hist.arg = STATE_ALLOCATED
      /\ ~(token.live /\ token.hasValue))
       => sm[hist.who].current_state = STATE_NIL
  /\ \A i \in DOMAIN sm :
       sm[i].current_state # STATE_NIL => (token.live /\ token.hasValue)

\* C26: after every step_state_machine call on a machine that owns its
\* token, sm->current_state equals the state gosiuml_get_state derives from
\* the token's flags and score.
C26_MachineStateMatchesGetState ==
  hist.op = "step" =>
    sm[hist.who].current_state = gosiuml_get_state(token)

C27_MachineMovesForwardOnly ==
  [][\A i \in DOMAIN sm :
       /\ sm'[i].current_state \in
            {sm[i].current_state, sm[i].current_state + 1}
       /\ sm[i].current_state = STATE_DEGRADED =>
            sm'[i].current_state = STATE_DEGRADED
       /\ sm'[i].current_state \notin {STATE_SHARED, STATE_FREED}]_vars

\* an event was delivered to a machine in DEGRADED and left it there
C27_Witness ==
  /\ hist.op = "step" /\ hist.from = STATE_DEGRADED
  /\ sm[hist.who].current_state = STATE_DEGRADED

\* C28: gosiuml_process_token changes a token's reported state only along
\* an edge that gosiuml_transition accepts from that state: it locks the
\* token only where gosiuml_transition(token, STATE_LOCKED) would return 0.
C28_ProcessFollowsTransitionTable ==
  (hist.op = "process" /\ hist.pre.live
     /\ gosiuml_get_state(token) # gosiuml_get_state(hist.pre)) =>
    gosiuml_transition(hist.pre, gosiuml_get_state(token)).ret = 0

\* C29: on one context every successful gosiuml_process_token call adds one
\* to the sum of stats.state_count[0..6] and a failed call adds nothing;
\* transition_count grows by one exactly on the calls that find the token
\* allocated and unlocked; a call that follows a successful call on the same
\* token changes no token flag and counts no transition; and
\* state_count[ALLOCATED] and state_count[FREED] stay 0.
C29_ProcessStatsConsistent ==
  [][/\ hist'.op = "process" =>
          /\ hist'.ret = 0 <=> token.live
          /\ ProcessCalls(ctx') =
               ProcessCalls(ctx) + (IF hist'.ret = 0 THEN 1 ELSE 0)
          /\ ctx'.transition_count =
               ctx.transition_count +
                 (IF token.live /\ token.allocated = 1 /\ token.locked = 0
                  THEN 1 ELSE 0)
          /\ (hist.op = "process" /\ hist.ret = 0) =>
               (token' = token /\ ctx'.transition_count = ctx.transition_count)
     /\ hist'.op # "process" => ctx' = ctx
     /\ ctx'.state_count[STATE_ALLOCATED] = 0
     /\ ctx'.state_count[STATE_FREED] = 0]_vars

\* the second of two successful calls has found the token locked: two calls
\* are counted and one transition
C29_Witness ==
  /\ hist.op = "process" /\ hist.ret = 0 /\ hist.pre.locked = 1
  /\ ProcessCalls(ctx) = 2
  /\ ctx.transition_count = 1
  /\ ctx.state_count[STATE_LOCKED] = 1

\* C30: for any sequence of gosiuml_init / gosiuml_cleanup calls, calls from
\* two threads at the same time included, the library mutex is initialised
\* exactly when the initialized flag is true (looked at while no call is
\* running), it is never initialised twice without a destroy in between and
\* never destroyed twice without an init in between.
C30_InitCleanupBalanced ==
  /\ (\A i \in Threads : lib.th[i].pc = "idle") =>
       (lib.mutex <=> lib.initialized)
  /\ ~lib.reinitialised
  /\ ~lib.redestroyed

\* C31: whenever quantum_bind has returned, with 0 or with -1, every worker
\* it started has ended, so none writes to the caller's array afterwards;
\* also when pthread_create fails after earlier threads were started.
C31_NoWorkerOutlivesBind ==
  bind.pc = "returned" =>
    \A k \in BindWorkers : bind.w[k].pc \in {"none", "done"}

\* C32: no gosiuml_process_token, gosiuml_transition (FREED included),
\* gosiuml_get_state or step_state_machine call changes mem_flags.ref_count:
\* it stays at the 1 set at creation, so a live token has ref_count >= 1 and
\* ref_count = 0 is never reached.
C32_RefCountStaysOne ==
  /\ hist.op \in {"process", "transition", "get_state", "step"} =>
       token.ref_count = hist.pre.ref_count
  /\ token.live => token.ref_count = 1

\* a transition to FREED has succeeded and the count is still 1
C32_Witness ==
  /\ hist.op = "transition" /\ hist.arg = STATE_FREED /\ hist.ret = 0
  /\ hist.pre.live /\ hist.pre.allocated = 1
  /\ token.ref_count = 1

\* C33: after any sequence of token_list_init, token_list_add and
\* token_list_free calls that starts with init, count <= capacity, the last
\* add has stored its token at an index below capacity, and the list holds
\* the tokens added since the last init/free in insertion order; an add
\* issued after token_list_free included.
C33_TokenListWithinCapacity ==
  /\ list.count <= list.capacity
  /\ list.last # -1 => list.last < list.capacity
  /\ list.count = Len(list.since)
  /\ \A i \in 1..list.count : list.tokens[i] = list.since[i]

====
